---- MODULE Spec2Model ----
(***************************************************************************)
(* A model of the outlier detector, the weighted-mean utility and the      *)
(* automatic data editor of PyGeoNS.                                       *)
(*                                                                         *)
(* Arrays are numpy arrays: a name is bound to an array OBJECT, and        *)
(* np.asarray of an ndarray gives the same object while                    *)
(* np.array(...,copy=True) gives a fresh one.  The heap `mem` maps object  *)
(* identities to contents, so that in-place writes through one name are    *)
(* seen through every other name bound to the same object.                 *)
(*                                                                         *)
(* Numbers.  Observations and residuals are integers in units of 5e-11,    *)
(* so the noise floor zero_tol = 1e-10 of clean._outliers is 2.            *)
(* Uncertainties of the outlier detector are 1, 2 or np.inf.               *)
(***************************************************************************)
EXTENDS Integers, Sequences, FiniteSets, TLC

\* ------------------------------------------------------------------ bounds
Nt == 2          \* number of epochs (rows of the grid)
Nx == 2          \* number of stations (columns of the grid)

\* ------------------------------------------------------- special numbers
Inf == 1000      \* np.inf
NaN == 0 - 1000  \* np.nan
BigSigma == 100  \* the finite value network_smoother puts in place of np.inf
zero_tol == 2    \* clean._outliers: zero_tol = 1e-10, in units of 5e-11

Rows  == 1..Nt
Cols  == 1..Nx
Cells == Rows \X Cols

Abs(n) == IF n < 0 THEN 0 - n ELSE n

\* the cells of a set in the order np.nonzero lists them (row-major)
RECURSIVE RowMajor(_)
RowMajor(S) ==
  IF S = {} THEN << >>
  ELSE LET c == CHOOSE a \in S : \A b \in S :
                   a[1] < b[1] \/ (a[1] = b[1] /\ a[2] <= b[2])
       IN  <<c>> \o RowMajor(S \ {c})

SeqMap1(s) == [i \in DOMAIN s |-> s[i][1]]
SeqMap2(s) == [i \in DOMAIN s |-> s[i][2]]

RECURSIVE SumOver(_, _)
SumOver(f, S) ==
  IF S = {} THEN 0
  ELSE LET a == CHOOSE b \in S : TRUE IN f[a] + SumOver(f, S \ {a})

\* --------------------------------------------------------------- the heap
\* The heap is a function from the allocated objects to their contents.  The
\* objects of clean.outliers: "u_arg" and "sigma_arg", the caller's arrays;
\* "sigma_own", the copy clean.outliers works on; "sigma_ns", the copy
\* network_smoother works on.
NoObj == "None"     \* a name that is bound to None
NoGrid == << >>     \* a local that is not assigned yet

VARIABLES
  pc,          \* where clean.outliers is: "call","fit","score","done","raised"
  mem,         \* heap: allocated object -> grid contents
  sigma,       \* clean.outliers: the object its name `sigma` is bound to
  tol,         \* clean.outliers: tol
  rout, cout,  \* clean.outliers: the accumulated index arrays
  itr,         \* clean.outliers: itr
  ri, ci,      \* the index arrays the last call of _outliers returned
  upred,       \* the prediction the last call of network_smoother returned
  sigma_flat,  \* network_smoother: the uncertainties the system is built from
  solved,      \* the smoother as a function: the (sigma, upred) pairs seen
  entry,       \* contents of the caller's arrays when the call was made
  ncall,       \* 1 in the first call of clean.outliers, 2 in the repeated one
  nfit         \* number of calls of _outliers in the current call

outVars == <<pc, mem, sigma, tol, rout, cout, itr, ri, ci, upred, sigma_flat,
             solved, entry, ncall, nfit>>

VARIABLES
  wm_pc,       \* "call" before the call, then "done" or "raised"
  wm_fn,       \* the function that was called
  wm_isarr,    \* TRUE when the caller passes ndarrays, FALSE when lists
  wm_mem,      \* heap: allocated object -> 1-d array contents
  wm_entry,    \* contents of the caller's arrays when the call was made
  wm_out       \* the returned pair

wmVars == <<wm_pc, wm_fn, wm_isarr, wm_mem, wm_entry, wm_out>>

VARIABLES
  ac_pc,       \* "call" before main.autoclean.autoclean is called, then "done"
  ac_mem,      \* heap: allocated object -> grid contents
  ac_entry,    \* contents of the caller's arrays when the call was made
  ac_mask,     \* autoclean: mask
  ac_outliers  \* autoclean: outliers, the indices rbf.gauss.outliers returned

acVars == <<ac_pc, ac_mem, ac_entry, ac_mask, ac_outliers>>

VARIABLES
  ic_pc,         \* "ready" while an InteractiveCleaner is open
  ic_data,       \* self.data_sets[0], one component: (epoch, station) -> value
  ic_sigma,      \* self.sigma_sets[0], held as its square
  ic_kept_data,  \* clean.py: self.data_sets[1]
  ic_kept_sigma, \* clean.py: self.sigma_sets[1], held as its square
  ic_xidx,       \* self.config['xidx'], the current station
  ic_nops,       \* number of operations so far
  ic_last,       \* the last operation and how it ended
  ic_prev        \* the working data set before the last operation

icVars == <<ic_pc, ic_data, ic_sigma, ic_kept_data, ic_kept_sigma, ic_xidx,
            ic_nops, ic_last, ic_prev>>

VARIABLES
  dc_pc,       \* "call" before a check is called, then "returned" or "raised"
  dc_fn,       \* the check that was called
  dc_val,      \* data['east'], data['north'], data['vertical']
  dc_std,      \* data['east_std'], data['north_std'], data['vertical_std']
  dc_id,       \* data['id']
  dc_isarr,    \* TRUE when the items of the dictionary are ndarrays
  dc_entry     \* the values and uncertainties when the check was called

dcVars == <<dc_pc, dc_fn, dc_val, dc_std, dc_id, dc_isarr, dc_entry>>

VARIABLES
  ds_pc,       \* "new", "made", "filled", "penalty", "penalty2" or "raised"
  ds,          \* the DiffSpecs instance: its 'time' and 'space' dictionaries
  ds_sigma,    \* the uncertainty grid given to compute_penalty
  ds_T, ds_L,  \* time_scale and length_scale
  ds_k,        \* the factor the uncertainties are scaled by in the second call
  ds_pen,      \* the square of the penalty compute_penalty returned
  ds_pen2      \* the same for the scaled uncertainties

dsVars == <<ds_pc, ds, ds_sigma, ds_T, ds_L, ds_k, ds_pen, ds_pen2>>

VARIABLES
  vs_pc,       \* "call", "assembled", "returned" or "raised"
  vs_fn,       \* the function that was called: network_smoother or gpr
  vs_s,        \* the uncertainties: (epoch, station), for gpr (dataset, datum)
  vs_W,        \* network_smoother: the diagonal of W
  vs_out,      \* gpr: what is returned for each dataset
  vs_err       \* gpr: the datasets whose task raised a numerical error

vsVars == <<vs_pc, vs_fn, vs_s, vs_W, vs_out, vs_err>>

VARIABLES
  df_pc,       \* "call", then "matrix" (diff_matrix returned) or "diffed"
  df_mask,     \* the argument mask: None or the set of points where it is True
  df_time,     \* TRUE when ds['time']['diffs'] is set
  df_space,    \* TRUE when ds['space']['diffs'] is set
  df_unan,     \* the points where the argument u is nan
  df_Dt,       \* diff_matrix: Dt, stored (row, column) -> value
  df_Dx,       \* diff_matrix: Dx
  df_D,        \* diff_matrix: D = Dt.dot(Dx)
  df_out       \* diff: the points where u_diff is nan

dfVars == <<df_pc, df_mask, df_time, df_space, df_unan, df_Dt, df_Dx, df_D,
            df_out>>

VARIABLES
  bs_pc,       \* "call", "loop", "returned" or "raised"
  bs_itr,      \* _bootstrap_uncertainty: itr
  bs_calls,    \* the (G, L) of every call of modest.sparse_reg_petsc so far
  bs_solns,    \* the solutions these calls returned
  bs_soln,     \* soln, the _RunningVariance: sum, sumsqs, count
  bs_out       \* the square of the returned uncertainty

bsVars == <<bs_pc, bs_itr, bs_calls, bs_solns, bs_soln, bs_out>>

VARIABLES
  dup_pc,      \* "call" before station_is_duplicate is called, then "returned"
               \* or "raised"
  dup_x,       \* x: the position of every station, on a line
  dup_obs,     \* for every station, the number of epochs with finite sigma
  dup_tol,     \* tol, a fraction
  dup_flags,   \* is_duplicate: the set of stations where it is True
  dup_found    \* what _identify_duplicate_station last computed: idx1, idx2, out

dupVars == <<dup_pc, dup_x, dup_obs, dup_tol, dup_flags, dup_found>>

VARIABLES
  ld_pc,       \* "call" before the call, then "returned"
  ld_fn,       \* the function that was called
  ld_inf,      \* the points where sigma is np.inf
  ld_cutoff,   \* cutoff, a fraction
  ld_out       \* the returned boolean array

ldVars == <<ld_pc, ld_fn, ld_inf, ld_cutoff, ld_out>>

VARIABLES
  go_pc,       \* "call" before gpr._is_outlier is called, "loop", "returned"
  go_d,        \* d: the observations
  go_tol,      \* tol
  go_out,      \* out: the set of points where it is True
  go_hist      \* the values out has had, oldest first

goVars == <<go_pc, go_d, go_tol, go_out, go_hist>>

VARIABLES
  fl_pc,       \* "made" once the DiffSpecs is constructed, then "filled"
  fl_before,   \* the 'time' and 'space' dictionaries before fill()
  fl_ds        \* the same dictionaries now

flVars == <<fl_pc, fl_before, fl_ds>>

VARIABLES
  cv_pc,       \* "call", "written" (csv_from_dict returned), "read", "raised"
  cv_dict,     \* the data dictionary: id, time, north, north_std
  cv_file,     \* the file: for every station written, its id and its lines
  cv_back      \* the data dictionary dict_from_csv returns

cvVars == <<cv_pc, cv_dict, cv_file, cv_back>>

VARIABLES
  pa_pc,       \* "call" before main.pygeons_autoclean is called, "returned",
               \* "raised"
  pa_args,     \* outlier_tol, output_stem and the exponents found in the file
  pa_logged,   \* the tolerance _log_autoclean is given
  pa_calls     \* for every call of autoclean, the direction and tol it ran with

paVars == <<pa_pc, pa_args, pa_logged, pa_calls>>


\* clean/iclean.py, InteractiveCleaner: the state the event handlers keep
VARIABLES
  ev_mode,     \* self._mode
  ev_all,      \* self._apply_to_all
  ev_pressed,  \* self._mouse_is_pressed
  ev_t1,       \* self._t1, unset until the first press in the figure
  ev_t2,       \* self._t2
  ev_rect,     \* the rectangle drawn on the time series axes, if any
  ev_last,     \* the event handled last, the mode and the history it found
  ev_calls,    \* the cleaning methods the last handler called
  ev_armed     \* history: a left press inside the time series figure has
               \* been delivered and no left release since

evVars == <<ev_mode, ev_all, ev_pressed, ev_t1, ev_t2, ev_rect, ev_last,
            ev_calls, ev_armed>>

earlyVars == <<outVars, wmVars, acVars, icVars, dcVars, dsVars, vsVars,
              dfVars>>
lateVars == <<bsVars, dupVars, ldVars, goVars, flVars, cvVars, paVars,
             evVars>>

vars == <<earlyVars, lateVars>>

\* what a step of one machine leaves alone: the variables of the others
notOut == <<wmVars, acVars, icVars, dcVars, dsVars, vsVars,
           dfVars, lateVars>>
notWm  == <<outVars, acVars, icVars, dcVars, dsVars, vsVars,
           dfVars, lateVars>>
notAc  == <<outVars, wmVars, icVars, dcVars, dsVars, vsVars,
           dfVars, lateVars>>
notIc  == <<outVars, wmVars, acVars, dcVars, dsVars, vsVars,
           dfVars, lateVars>>
notDc  == <<outVars, wmVars, acVars, icVars, dsVars, vsVars,
           dfVars, lateVars>>
notDs  == <<outVars, wmVars, acVars, icVars, dcVars, vsVars,
           dfVars, lateVars>>
notVs  == <<outVars, wmVars, acVars, icVars, dcVars, dsVars,
           dfVars, lateVars>>
notDf  == <<outVars, wmVars, acVars, icVars, dcVars, dsVars, vsVars,
           lateVars>>
notBs == <<earlyVars, dupVars, ldVars, goVars, flVars, cvVars, paVars,
           evVars>>
notDup == <<earlyVars, bsVars, ldVars, goVars, flVars, cvVars, paVars,
           evVars>>
notLd == <<earlyVars, bsVars, dupVars, goVars, flVars, cvVars, paVars,
           evVars>>
notGo == <<earlyVars, bsVars, dupVars, ldVars, flVars, cvVars, paVars,
           evVars>>
notFl == <<earlyVars, bsVars, dupVars, ldVars, goVars, cvVars, paVars,
           evVars>>
notCv == <<earlyVars, bsVars, dupVars, ldVars, goVars, flVars, paVars,
           evVars>>
notPa == <<earlyVars, bsVars, dupVars, ldVars, goVars, flVars, cvVars,
           evVars>>
notEv == <<earlyVars, bsVars, dupVars, ldVars, goVars, flVars, cvVars,
           paVars>>

\* ------------------------------------------------------------ numpy calls
\* np.array(a, copy=True): the name is bound to the fresh object
np_array_copy_alias(src, fresh) == src
np_array_copy(src, fresh) == fresh

\* np.asarray(a): the same object when a is an ndarray, a fresh array when a
\* is a list
np_asarray(src, fresh, isarr) == IF isarr THEN src ELSE fresh

\* the heap after binding a name to `obj`, which holds the contents of `src`
Bind(m, obj, src) ==
  [o \in DOMAIN m \cup {obj} |-> IF o = obj THEN m[src] ELSE m[o]]

\* the heap after allocating `obj` with contents g
Alloc(m, obj, g) == [o \in DOMAIN m \cup {obj} |-> IF o = obj THEN g ELSE m[o]]

\* a[cells] = v, in place
Assign(g, cells, v) == [c \in DOMAIN g |-> IF c \in cells THEN v ELSE g[c]]

Masked(g) == {c \in DOMAIN g : g[c] = Inf}

\* ------------------------------------------------------- network_smoother
PredVals == {0, 1}
Preds    == {[c \in Cells |-> p] : p \in PredVals}

\* smooth.network_smoother, sigma handling: sigma[sigma==np.inf] = 1e10
ClampInf(g) == [c \in DOMAIN g |-> IF g[c] = Inf THEN BigSigma ELSE g[c]]

\* The predictions network_smoother may return for the uncertainties sg: what
\* it returned before for the same input, otherwise any prediction.  (u, t, x
\* and the options are the same in every call, so the result is a function of
\* sigma.)
SmootherResults(sg) ==
  IF \E e \in solved : e[1] = sg
    THEN {e[2] : e \in {d \in solved : d[1] = sg}}
    ELSE Preds

\* ------------------------------------------------------- clean._outliers
\* all finite uncertainties divide SigLcm, so res/sigma is the integer
\* res*(SigLcm/sigma) in units of 1/SigLcm
FiniteSigmas == {1, 2}
SigLcm == CHOOSE m \in 1..4 : /\ \A s \in FiniteSigmas : m % s = 0
                              /\ \A k \in 1..(m-1) : \E s \in FiniteSigmas : k % s # 0

\* res = u - upred ; res[np.abs(res) < zero_tol] = 0.0
RawRes(ug, pg) == [c \in Cells |-> ug[c] - pg[c]]
ZeroSmall(rg)  == [c \in Cells |-> IF Abs(rg[c]) < zero_tol THEN 0 ELSE rg[c]]

\* res /= sigma ; x/inf is 0
Normalize(rg, sg) ==
  [c \in Cells |-> IF sg[c] = Inf THEN 0 ELSE rg[c] * (SigLcm \div sg[c])]

\* the points np.nanstd takes into account after res[np.isinf(sigma)] = np.nan
StdPoints_all(sg, x) == {c \in Cells : c[2] = x}
StdPoints(sg, x) == {c \in Cells : c[2] = x /\ sg[c] # Inf}

\* absres > tol*std at cell c, std being the population standard deviation of
\* the normalized residuals ng over the points P of the station (0 when P is
\* empty):  |n| > tol*sqrt(S2/k - (S1/k)^2)  <=>  n^2 k^2 > tol^2 (k S2 - S1^2)
ExceedsStd(ng, P, c, tl) ==
  LET k  == Cardinality(P)
      S1 == SumOver(ng, P)
      S2 == SumOver([d \in Cells |-> ng[d] * ng[d]], P)
  IN  IF k = 0 THEN Abs(ng[c]) > 0
      ELSE ng[c] * ng[c] * k * k > tl * tl * (k * S2 - S1 * S1)

\* absres == np.max(absres,axis=0)
IsColMax(ag, c) == \A t \in Rows : ag[<<t, c[2]>>] <= ag[c]

\* the set of cells clean._outliers returns for prediction pg
Flagged(ug, sg, pg, tl) ==
  LET res0   == ZeroSmall(RawRes(ug, pg))
      resn   == Normalize(res0, sg)
      \* res[np.isinf(sigma)] = 0.0
      res    == [c \in Cells |-> IF sg[c] = Inf THEN 0 ELSE resn[c]]
      absres == [c \in Cells |-> Abs(res[c])]
  IN  {c \in Cells : /\ ExceedsStd(resn, StdPoints(sg, c[2]), c, tl)
                     /\ IsColMax(absres, c)}

\* ------------------------------------------------------------ the inputs
\* one grid point of the input: <<u, sigma>>
CellIn == {<<0, 1>>, <<4, 1>>, <<4, 2>>, <<0, Inf>>, <<4, Inf>>}
ColIn  == [Rows -> CellIn]
\* the series of the other stations
CellInRest == {<<0, 1>>, <<4, 2>>, <<4, Inf>>}
ColInRest  == [Rows -> CellInRest]
Tols   == {0, 1, 3}

\* the grids (u, sigma): one station has the series a, the others the series b
GridOf(xs, a, b, k) ==
  [c \in Cells |-> IF c[2] = xs THEN a[c[1]][k] ELSE b[c[1]][k]]

Ones == [c \in Cells |-> 1]

InitOutliers ==
  /\ pc = "call"
  /\ \E xs \in Cols, a \in ColIn, b \in ColInRest, given \in BOOLEAN :
       /\ mem = [o \in IF given THEN {"u_arg", "sigma_arg"} ELSE {"u_arg"} |->
                   IF o = "u_arg" THEN GridOf(xs, a, b, 1)
                   ELSE GridOf(xs, a, b, 2)]
  /\ entry = mem
  /\ tol \in Tols
  /\ sigma = NoObj
  /\ rout = << >> /\ cout = << >> /\ itr = 0
  /\ ri = << >> /\ ci = << >>
  /\ upred = NoGrid
  /\ sigma_flat = NoGrid
  /\ solved = {}
  /\ ncall = 1
  /\ nfit = 0

\* --------------------------------------------------------- clean.outliers
\* sigma[ri,ci] = np.inf
MarkOutliers_rows(sg, r, c) == Assign(sg, {<<r[i], r[i]>> : i \in DOMAIN r}, Inf)
MarkOutliers(sg, r, c) == Assign(sg, {<<r[i], c[i]>> : i \in DOMAIN r}, Inf)

\* np.concatenate((rout,ri))
Concatenate_last(a, b) == b
Concatenate(a, b) == a \o b

\* clean.outliers up to the loop: the check of tol, the copy of sigma
OutliersCall ==
  /\ pc = "call"
  /\ IF ~(tol > 0)
       THEN /\ pc' = "raised"
            /\ UNCHANGED <<mem, sigma, rout, cout, itr, nfit>>
       ELSE /\ IF "sigma_arg" \notin DOMAIN mem
                 THEN /\ sigma' = "sigma_own"
                      /\ mem' = Alloc(mem, "sigma_own", Ones)
                 ELSE LET obj == np_array_copy("sigma_arg", "sigma_own")
                      IN  /\ sigma' = obj
                          /\ mem' = Bind(mem, obj, "sigma_arg")
            /\ rout' = << >> /\ cout' = << >> /\ itr' = 0 /\ nfit' = 0
            /\ pc' = "fit"
  /\ UNCHANGED <<tol, ri, ci, upred, sigma_flat, solved, entry, ncall>>
  /\ UNCHANGED notOut

\* clean._outliers, first part: the call of network_smoother, which copies
\* sigma, replaces np.inf and solves
Fit ==
  /\ pc = "fit"
  /\ LET obj == np_array_copy(sigma, "sigma_ns")
         m1  == Bind(mem, obj, sigma)
         m2  == [m1 EXCEPT ![obj] = ClampInf(m1[obj])]
     IN  /\ mem' = m2
         /\ sigma_flat' = m2[obj]
         /\ upred' \in SmootherResults(mem[sigma])
         /\ solved' = solved \cup {<<mem[sigma], upred'>>}
  /\ nfit' = nfit + 1
  /\ pc' = "score"
  /\ UNCHANGED <<sigma, tol, rout, cout, itr, ri, ci, entry, ncall>>
  /\ UNCHANGED notOut

\* clean._outliers, second part, and the rest of the loop body of
\* clean.outliers
Score ==
  /\ pc = "score"
  /\ LET idx == RowMajor(Flagged(mem["u_arg"], mem[sigma], upred, tol))
     IN  /\ ri' = SeqMap1(idx)
         /\ ci' = SeqMap2(idx)
         /\ IF Len(idx) = 0
              THEN /\ pc' = "done"
                   /\ UNCHANGED <<mem, rout, cout, itr>>
              ELSE /\ mem' = [mem EXCEPT ![sigma] = MarkOutliers(@, ri', ci')]
                   /\ rout' = Concatenate(rout, ri')
                   /\ cout' = Concatenate(cout, ci')
                   /\ itr' = itr + 1
                   /\ pc' = "fit"
  /\ UNCHANGED <<sigma, tol, upred, sigma_flat, solved, entry, ncall, nfit>>
  /\ UNCHANGED notOut

\* the caller sets sigma[rout,cout] = np.inf in its own array and calls
\* clean.outliers again with the same u and tol
CallAgain ==
  /\ pc = "done"
  /\ ncall = 1
  /\ LET s0 == IF "sigma_arg" \in DOMAIN mem THEN mem["sigma_arg"] ELSE Ones
         s1 == Assign(s0, {<<rout[i], cout[i]>> : i \in DOMAIN rout}, Inf)
     IN  /\ mem' = [o \in {"u_arg", "sigma_arg"} |->
                      IF o = "u_arg" THEN mem["u_arg"] ELSE s1]
         /\ entry' = mem'
  /\ ncall' = 2
  /\ pc' = "call"
  /\ sigma' = NoObj
  /\ rout' = << >> /\ cout' = << >> /\ itr' = 0 /\ nfit' = 0
  /\ ri' = << >> /\ ci' = << >>
  /\ upred' = NoGrid /\ sigma_flat' = NoGrid
  /\ UNCHANGED <<tol, solved>>
  /\ UNCHANGED notOut

\* clean.outliers is not running
IdleOutliers ==
  /\ pc = "idle"
  /\ mem = << >> /\ entry = << >>
  /\ sigma = NoObj /\ tol = 0
  /\ rout = << >> /\ cout = << >> /\ itr = 0
  /\ ri = << >> /\ ci = << >>
  /\ upred = NoGrid /\ sigma_flat = NoGrid
  /\ solved = {}
  /\ ncall = 0 /\ nfit = 0

\* ================================================== the weighted mean
\* Uncertainties of the weighted mean are integers in units of 5e-21, so the
\* floor min_sigma = 1e-20 of downsample.weighted_mean is 2.  Results are
\* exact fractions <<numerator, denominator>>: 0/0 is nan, 1/0 is inf.  An
\* uncertainty that is returned is held as its square.
MaxLen == 2      \* largest number of entries along the axis
min_sigma == 2   \* downsample.weighted_mean: min_sigma = 1e-20, units of 5e-21

RNaN == <<0, 0>>
RInf == <<1, 0>>
RZero == <<0, 1>>

RECURSIVE Gcd(_, _)
Gcd(a, b) == IF b = 0 THEN a ELSE Gcd(b, a % b)

\* the fraction n/d in lowest terms, d >= 0; n/0 is nan, inf or -inf
Rat(n, d) ==
  IF d = 0 THEN <<IF n > 0 THEN 1 ELSE IF n < 0 THEN 0 - 1 ELSE 0, 0>>
  ELSE LET g == Gcd(Abs(n), Abs(d))
           sg == IF d < 0 THEN 0 - 1 ELSE 1
       IN  <<sg * (n \div g), sg * (d \div g)>>

RatIsNaN(a) == a = RNaN
RatAdd(a, b) ==
  IF RatIsNaN(a) \/ RatIsNaN(b) THEN RNaN
  ELSE IF a[2] = 0 \/ b[2] = 0
         THEN (IF a[2] = 0 /\ b[2] = 0 /\ a[1] # b[1] THEN RNaN
               ELSE IF a[2] = 0 THEN a ELSE b)
  ELSE Rat(a[1] * b[2] + b[1] * a[2], a[2] * b[2])
RatDiv(a, b) ==
  IF RatIsNaN(a) \/ RatIsNaN(b) THEN RNaN
  ELSE IF a[2] = 0 /\ b[2] = 0 THEN RNaN
  ELSE Rat(a[1] * b[2], a[2] * b[1])
RatLeq(a, b) == a[1] * b[2] <= b[1] * a[2]     \* for finite a, b

RECURSIVE RatSum(_)
RatSum(q) == IF Len(q) = 0 THEN RZero ELSE RatAdd(Head(q), RatSum(Tail(q)))

\* x/sigma**2 and 1.0/sigma**2 for one entry
Numer(x, sg) == IF x = NaN THEN RNaN
                ELSE IF sg = Inf THEN RZero ELSE Rat(x, sg * sg)
Denom(sg)    == IF sg = Inf THEN RZero ELSE Rat(1, sg * sg)

\* np.sum(x/sigma**2), np.sum(1.0/sigma**2)
SumNumer(xs, sgs) == RatSum([i \in DOMAIN xs |-> Numer(xs[i], sgs[i])])
SumDenom(sgs)     == RatSum([i \in DOMAIN sgs |-> Denom(sgs[i])])

\* downsample.weighted_mean: sigma[sigma < min_sigma] = min_sigma
ClampMin(sgs) == [i \in DOMAIN sgs |-> IF sgs[i] < min_sigma THEN min_sigma ELSE sgs[i]]

\* downsample.weighted_mean: out_value[np.isnan(out_value)] = 0.0
NanToZero(v) == IF RatIsNaN(v) THEN RZero ELSE v

\* downsample.weighted_mean: out_sigma[out_sigma <= min_sigma] = 0.0, on the
\* square of out_sigma
SnapSigma_lt(s2) ==
  IF s2[2] # 0 /\ ~RatLeq(Rat(min_sigma * min_sigma, 1), s2) THEN RZero ELSE s2
SnapSigma(s2) ==
  IF s2[2] # 0 /\ RatLeq(s2, Rat(min_sigma * min_sigma, 1)) THEN RZero ELSE s2

\* the pair downsample.weighted_mean returns for the arrays xs, sgs (sgs
\* after the clamp)
DownResult(xs, sgs) ==
  LET numer == SumNumer(xs, sgs)
      denom == SumDenom(sgs)
  IN  [value    |-> NanToZero(RatDiv(numer, denom)),
       sigma_sq |-> SnapSigma(RatDiv(Rat(1, 1), denom))]

\* clean/iclean.weighted_mean: x[np.isnan(x)] = 0.0
ZeroNans(xs) == [i \in DOMAIN xs |-> IF xs[i] = NaN THEN 0 ELSE xs[i]]

\* the pair clean/iclean.weighted_mean returns
IcleanResult(xs, sgs) ==
  LET numer == SumNumer(xs, sgs)
      denom == SumDenom(sgs)
  IN  [value    |-> RatDiv(numer, denom),
       sigma_sq |-> RatDiv(Rat(1, 1), denom)]

NoResult == [value |-> RNaN, sigma_sq |-> RNaN]

\* the inputs
XVals   == {1, 3, NaN}
SigVals == {0, 1, 2, 3, Inf}

InitWM ==
  /\ wm_pc = "call"
  /\ wm_fn = "none"
  /\ wm_isarr \in BOOLEAN
  /\ \E n \in 0..MaxLen : \E xs \in [1..n -> XVals], sgs \in [1..n -> SigVals] :
       wm_mem = [o \in {"x_arg", "sigma_arg"} |-> IF o = "x_arg" THEN xs ELSE sgs]
  /\ wm_entry = wm_mem
  /\ wm_out = NoResult

IdleWM ==
  /\ wm_pc = "idle" /\ wm_fn = "none" /\ wm_isarr = FALSE
  /\ wm_mem = << >> /\ wm_entry = << >> /\ wm_out = NoResult

\* downsample.weighted_mean(x,sigma,axis)
DownsampleWeightedMean ==
  /\ wm_pc = "call"
  /\ LET xo == np_asarray("x_arg", "x_own", wm_isarr)
         so == np_asarray("sigma_arg", "sigma_own", wm_isarr)
         m1 == Bind(Bind(wm_mem, xo, "x_arg"), so, "sigma_arg")
         m2 == [m1 EXCEPT ![so] = ClampMin(@)]
     IN  /\ wm_mem' = m2
         /\ wm_out' = DownResult(m2[xo], m2[so])
  /\ wm_fn' = "downsample"
  /\ wm_pc' = "done"
  /\ UNCHANGED <<wm_isarr, wm_entry>>
  /\ UNCHANGED notWm

\* clean/iclean.weighted_mean(x,sigma,axis)
IcleanWeightedMean ==
  /\ wm_pc = "call"
  /\ LET xo == np_array_copy("x_arg", "x_own")
         so == np_asarray("sigma_arg", "sigma_own", wm_isarr)
         m1 == Bind(Bind(wm_mem, xo, "x_arg"), so, "sigma_arg")
         m2 == [m1 EXCEPT ![xo] = ZeroNans(@)]
     IN  /\ wm_mem' = m2
         /\ IF \E i \in DOMAIN m2[so] : m2[so][i] <= 0
              THEN wm_pc' = "raised" /\ wm_out' = wm_out
              ELSE wm_pc' = "done" /\ wm_out' = IcleanResult(m2[xo], m2[so])
  /\ wm_fn' = "iclean"
  /\ UNCHANGED <<wm_isarr, wm_entry>>
  /\ UNCHANGED notWm

\* clean.common_mode(u,t,x,sigma) on a grid of one epoch: u is the array x_arg
CommonMode ==
  /\ wm_pc = "call"
  /\ \E p \in PredVals :
       LET uo  == np_asarray("x_arg", "x_own", wm_isarr)
           so  == np_asarray("sigma_arg", "sigma_own", wm_isarr)
           m1  == Bind(Bind(wm_mem, uo, "x_arg"), so, "sigma_arg")
           \* network_smoother(u,t,x,sigma=sigma,...)
           ns  == np_array_copy(so, "sigma_ns")
           m2  == Bind(m1, ns, so)
           m3  == [m2 EXCEPT ![ns] = ClampInf(@)]
           \* res = u - upred
           m4  == Alloc(m3, "res", [i \in DOMAIN m3[uo] |->
                     IF m3[uo][i] = NaN THEN NaN ELSE m3[uo][i] - p])
           \* weighted_mean(res,sigma,axis=1)
           m5  == [m4 EXCEPT ![so] = ClampMin(@)]
       IN  /\ wm_mem' = m5
           /\ wm_out' = DownResult(m5["res"], m5[so])
  /\ wm_fn' = "common_mode"
  /\ wm_pc' = "done"
  /\ UNCHANGED <<wm_isarr, wm_entry>>
  /\ UNCHANGED notWm

\* ================================================ main.autoclean.autoclean
\* the inputs: one grid point <<d, sd>>; a missing point is <<nan, inf>>
AcCellIn     == {<<0, 1>>, <<NaN, Inf>>, <<NaN, 1>>, <<0, Inf>>}
AcColIn      == [Rows -> AcCellIn]
AcCellInRest == {<<0, 1>>, <<NaN, Inf>>}
AcColInRest  == [Rows -> AcCellInRest]

InitAutoclean ==
  /\ ac_pc = "call"
  /\ \E xs \in Cols, a \in AcColIn, b \in AcColInRest :
       ac_mem = [o \in {"d_arg", "sd_arg"} |->
                   IF o = "d_arg" THEN GridOf(xs, a, b, 1) ELSE GridOf(xs, a, b, 2)]
  /\ ac_entry = ac_mem
  /\ ac_mask = {}
  /\ ac_outliers = {}

IdleAutoclean ==
  /\ ac_pc = "idle" /\ ac_mem = << >> /\ ac_entry = << >>
  /\ ac_mask = {} /\ ac_outliers = {}

\* de[r[outliers],c[outliers]] = np.nan
MaskValues_skip(de, cells) == de
MaskValues(de, cells) == Assign(de, cells, NaN)

\* sde[r[outliers],c[outliers]] = np.inf
MaskSigmas(sde, cells) == Assign(sde, cells, Inf)

\* autoclean(t,x,d,sd,...): rbf.gauss.outliers may return any set of indices
\* into the unmasked observations
Autoclean ==
  /\ ac_pc = "call"
  /\ LET de   == np_array_copy("d_arg", "de")
         sde  == np_array_copy("sd_arg", "sde")
         m1   == Bind(Bind(ac_mem, de, "d_arg"), sde, "sd_arg")
         \* mask = np.isinf(sde)
         mask == Masked(m1[sde])
         \* r,c = np.nonzero(~mask)
         rc   == RowMajor(Cells \ mask)
     IN  /\ ac_mask' = mask
         /\ ac_outliers' \in SUBSET (1..Len(rc))
         /\ LET cells == {rc[i] : i \in ac_outliers'}
                m2    == [m1 EXCEPT ![de] = MaskValues(@, cells)]
            IN  ac_mem' = [m2 EXCEPT ![sde] = MaskSigmas(@, cells)]
  /\ ac_pc' = "done"
  /\ UNCHANGED ac_entry
  /\ UNCHANGED notAc

\* ================================================ the interactive cleaners
\* clean/iclean.InteractiveCleaner and clean.InteractiveCleaner.  The three
\* components of a data set are edited by the same elementwise statements, so
\* one component is kept.  A value is an exact fraction (0/0 is nan), an
\* uncertainty is held as its square (1/0 is inf), in the units of the
\* weighted mean.
MaxOps == 2      \* largest number of operations applied to a data set

IcStations == {1, 2}
IcCells    == Rows \X IcStations

\* self.t, and the times and radii the cursor can give
Times     == [i \in Rows |-> 2 * i]
JumpTimes == 1..(2 * Nt + 1)
Radii     == {0, 2, 2 * Nt}
\* the times between the epochs, where an interval starts and ends
EdgeTimes == {2 * i - 1 : i \in 1..(Nt + 1)}

\* the sum and the quotient of two fractions, with the common factors taken
\* out before the products are formed
QAdd(a, b) ==
  IF RatIsNaN(a) \/ RatIsNaN(b) \/ a[2] = 0 \/ b[2] = 0 THEN RatAdd(a, b)
  ELSE LET g == Gcd(a[2], b[2])
       IN  Rat(a[1] * (b[2] \div g) + b[1] * (a[2] \div g), (a[2] \div g) * b[2])
QDiv(a, b) ==
  IF RatIsNaN(a) \/ RatIsNaN(b) \/ a[2] = 0 \/ b[2] = 0 \/ a[1] = 0 \/ b[1] = 0
    THEN RatDiv(a, b)
  ELSE LET g1 == Gcd(Abs(a[1]), Abs(b[1]))
           g2 == Gcd(a[2], b[2])
       IN  Rat((a[1] \div g1) * (b[2] \div g2), (a[2] \div g2) * (b[1] \div g1))

RatNeg(a)    == <<0 - a[1], a[2]>>
RatSub(a, b) == QAdd(a, RatNeg(b))

RECURSIVE QSum(_, _)
QSum(f, S) ==
  IF S = {} THEN RZero
  ELSE LET a == CHOOSE b \in S : TRUE IN QAdd(f[a], QSum(f, S \ {a}))

\* np.nonzero((self.t > jump_time) & (self.t <= (jump_time+radius)))
TidxRight(jt, r) == {i \in Rows : Times[i] > jt /\ Times[i] <= jt + r}
\* np.nonzero((self.t < jump_time) & (self.t >= (jump_time-radius)))
TidxLeft(jt, r)  == {i \in Rows : Times[i] < jt /\ Times[i] >= jt - r}
\* np.nonzero(self.t > jump_time)
AllTidxRight(jt) == {i \in Rows : Times[i] > jt}
\* np.nonzero((self.t >= start_time) & (self.t <= end_time))
Tidx(st, en)     == {i \in Rows : Times[i] >= st /\ Times[i] <= en}

\* clean/iclean.weighted_mean(x,sigma,axis=0) on the entries T of station x:
\* out_value = numer/denom
IcMeanValue_zero(numer, denom) == NanToZero(QDiv(numer, denom))
IcMeanValue(numer, denom) == QDiv(numer, denom)

IcMeanRaises(s2, T, x) == \E i \in T : s2[<<i, x>>] = RZero

IcMean(d, s2, T, x) ==
  LET xz    == [i \in T |-> IF RatIsNaN(d[<<i, x>>]) THEN RZero ELSE d[<<i, x>>]]
      numer == QSum([i \in T |-> QDiv(xz[i], s2[<<i, x>>])], T)
      denom == QSum([i \in T |-> QDiv(Rat(1, 1), s2[<<i, x>>])], T)
  IN  [value    |-> IcMeanValue(numer, denom),
       sigma_sq |-> QDiv(Rat(1, 1), denom)]

\* downsample.weighted_mean(x,sigma,axis=0) on the entries T of station x;
\* x and sigma are the copies an index array makes
ClMean(d, s2, T, x) ==
  LET floor == Rat(min_sigma * min_sigma, 1)
      sc    == [i \in T |-> IF s2[<<i, x>>][2] # 0 /\ ~RatLeq(floor, s2[<<i, x>>])
                              THEN floor ELSE s2[<<i, x>>]]
      numer == QSum([i \in T |-> QDiv(d[<<i, x>>], sc[i])], T)
      denom == QSum([i \in T |-> QDiv(Rat(1, 1), sc[i])], T)
  IN  [value    |-> NanToZero(QDiv(numer, denom)),
       sigma_sq |-> SnapSigma(QDiv(Rat(1, 1), denom))]

\* the rest of remove_jump, from the two means on: the data set after the
\* jump is removed from the observations made after jump_time
ShiftAfter(d, s2, x, jt, mr, ml) ==
  LET jump       == RatSub(mr.value, ml.value)
      \* jump_sigma = np.sqrt(sigma_right**2 + sigma_left**2)
      jump_sigma == QAdd(mr.sigma_sq, ml.sigma_sq)
      aft        == {<<i, x>> : i \in AllTidxRight(jt)}
  IN  [data  |-> [c \in IcCells |-> IF c \in aft THEN RatSub(d[c], jump) ELSE d[c]],
       sigma |-> [c \in IcCells |-> IF c \in aft THEN QAdd(s2[c], jump_sigma)
                                    ELSE s2[c]]]

\* clean/iclean.InteractiveCleaner.remove_jump for station x; raised is TRUE
\* when weighted_mean raises, and then nothing is written
IcJump(d, s2, x, jt, r) ==
  IF IcMeanRaises(s2, TidxRight(jt, r), x) \/ IcMeanRaises(s2, TidxLeft(jt, r), x)
    THEN [data |-> d, sigma |-> s2, raised |-> TRUE]
    ELSE LET sh == ShiftAfter(d, s2, x, jt,
                              IcMean(d, s2, TidxRight(jt, r), x),
                              IcMean(d, s2, TidxLeft(jt, r), x))
         IN  [data |-> sh.data, sigma |-> sh.sigma, raised |-> FALSE]

\* clean/iclean.InteractiveCleaner.remove_outliers for station x
IcMask(d, s2, x, st, en) ==
  LET cells == {<<i, x>> : i \in Tidx(st, en)}
  IN  [data  |-> [c \in IcCells |-> IF c \in cells THEN RNaN ELSE d[c]],
       sigma |-> [c \in IcCells |-> IF c \in cells THEN RInf ELSE s2[c]]]

\* remove_jump_all: for i in range(N): self.config['xidx'] = i ;
\* self.remove_jump(...), from station i on; an exception leaves the loop and
\* config['xidx'] stays at the station that raised
RECURSIVE IcJumpAll(_, _, _, _, _, _)
IcJumpAll(d, s2, i, jt, r, xidx) ==
  IF i \notin IcStations THEN [data |-> d, sigma |-> s2, raised |-> FALSE, xidx |-> xidx]
  ELSE LET one == IcJump(d, s2, i, jt, r)
       IN  IF one.raised
             THEN [data |-> d, sigma |-> s2, raised |-> TRUE, xidx |-> i]
             ELSE IcJumpAll(one.data, one.sigma, i + 1, jt, r, xidx)

\* remove_outliers_all
RECURSIVE IcMaskAll(_, _, _, _, _)
IcMaskAll(d, s2, i, st, en) ==
  IF i \notin IcStations THEN [data |-> d, sigma |-> s2]
  ELSE LET one == IcMask(d, s2, i, st, en)
       IN  IcMaskAll(one.data, one.sigma, i + 1, st, en)

\* the inputs: one grid point <<value, sigma**2>>
IcCellIn     == {<<RNaN, RInf>>, <<Rat(0, 1), Rat(16, 1)>>,
                 <<Rat(4, 1), Rat(64, 1)>>, <<Rat(4, 1), RZero>>}
IcColIn      == [Rows -> IcCellIn]
\* the series of the other station: the same at every epoch
IcCellInRest == {<<RNaN, RInf>>, <<Rat(4, 1), Rat(16, 1)>>}
IcColInRest  == {[i \in Rows |-> b] : b \in IcCellInRest}

IcGridOf(a, b, k) == [c \in IcCells |-> IF c[2] = 1 THEN a[c[1]][k] ELSE b[c[1]][k]]

NoSet == << >>      \* the cleaner has no second data set

InitIclean ==
  /\ ic_pc = "ready"
  /\ \E a \in IcColIn, b \in IcColInRest :
       /\ ic_data = IcGridOf(a, b, 1)
       /\ ic_sigma = IcGridOf(a, b, 2)
  /\ ic_kept_data = NoSet /\ ic_kept_sigma = NoSet
  /\ ic_xidx \in IcStations
  /\ ic_nops = 0
  /\ ic_last = "none"
  /\ ic_prev = <<ic_data, ic_sigma>>

IdleCleaner ==
  /\ ic_pc = "idle"
  /\ ic_data = NoSet /\ ic_sigma = NoSet
  /\ ic_kept_data = NoSet /\ ic_kept_sigma = NoSet
  /\ ic_xidx = 0 /\ ic_nops = 0 /\ ic_last = "none" /\ ic_prev = NoSet

\* iclean: remove_jump(jump_time,radius)
IcRemoveJump ==
  /\ ic_pc = "ready" /\ ic_kept_data = NoSet /\ ic_nops < MaxOps
  /\ \E jt \in JumpTimes, r \in Radii :
       LET res == IcJump(ic_data, ic_sigma, ic_xidx, jt, r)
       IN  /\ ic_data' = res.data
           /\ ic_sigma' = res.sigma
           /\ ic_last' = IF res.raised THEN "remove_jump raised" ELSE "remove_jump"
  /\ ic_nops' = ic_nops + 1
  /\ ic_prev' = <<ic_data, ic_sigma>>
  /\ UNCHANGED <<ic_pc, ic_kept_data, ic_kept_sigma, ic_xidx>>
  /\ UNCHANGED notIc

\* iclean: remove_outliers(start_time,end_time)
IcRemoveOutliers ==
  /\ ic_pc = "ready" /\ ic_kept_data = NoSet /\ ic_nops < MaxOps
  /\ \E st \in EdgeTimes, en \in EdgeTimes :
       LET res == IcMask(ic_data, ic_sigma, ic_xidx, st, en)
       IN  /\ ic_data' = res.data
           /\ ic_sigma' = res.sigma
  /\ ic_last' = "remove_outliers"
  /\ ic_nops' = ic_nops + 1
  /\ ic_prev' = <<ic_data, ic_sigma>>
  /\ UNCHANGED <<ic_pc, ic_kept_data, ic_kept_sigma, ic_xidx>>
  /\ UNCHANGED notIc

\* iclean: remove_jump_all(jump_time,radius)
IcRemoveJumpAll ==
  /\ ic_pc = "ready" /\ ic_kept_data = NoSet /\ ic_nops < MaxOps
  /\ \E jt \in JumpTimes, r \in Radii :
       LET res == IcJumpAll(ic_data, ic_sigma, 1, jt, r, ic_xidx)
       IN  /\ ic_data' = res.data
           /\ ic_sigma' = res.sigma
           /\ ic_xidx' = res.xidx
           /\ ic_last' = IF res.raised THEN "remove_jump_all raised"
                         ELSE "remove_jump_all"
  /\ ic_nops' = ic_nops + 1
  /\ ic_prev' = <<ic_data, ic_sigma>>
  /\ UNCHANGED <<ic_pc, ic_kept_data, ic_kept_sigma>>
  /\ UNCHANGED notIc

\* iclean: remove_outliers_all(start_time,end_time)
IcRemoveOutliersAll ==
  /\ ic_pc = "ready" /\ ic_kept_data = NoSet /\ ic_nops < MaxOps
  /\ \E st \in EdgeTimes, en \in EdgeTimes :
       LET res == IcMaskAll(ic_data, ic_sigma, 1, st, en)
       IN  /\ ic_data' = res.data
           /\ ic_sigma' = res.sigma
  /\ ic_last' = "remove_outliers_all"
  /\ ic_nops' = ic_nops + 1
  /\ ic_prev' = <<ic_data, ic_sigma>>
  /\ UNCHANGED <<ic_pc, ic_kept_data, ic_kept_sigma, ic_xidx>>
  /\ UNCHANGED notIc


\* clean.InteractiveCleaner.remove_jump for station x; downsample's
\* weighted_mean does not raise
ClJump(d, s2, x, jt, r) ==
  ShiftAfter(d, s2, x, jt, ClMean(d, s2, TidxRight(jt, r), x),
                           ClMean(d, s2, TidxLeft(jt, r), x))

\* clean.InteractiveCleaner.remove_outliers for station x:
\* self.data_sets[0][tidx,xidx] = 0.0 ; self.sigma_sets[0][tidx,xidx] = np.inf
ClMask(d, s2, x, st, en) ==
  LET cells == {<<i, x>> : i \in Tidx(st, en)}
  IN  [data  |-> [c \in IcCells |-> IF c \in cells THEN RZero ELSE d[c]],
       sigma |-> [c \in IcCells |-> IF c \in cells THEN RInf ELSE s2[c]]]

\* clean.InteractiveCleaner.__init__: u = [u,np.copy(u)], su = [su,np.copy(su)]
InitClean ==
  /\ ic_pc = "ready"
  /\ \E a \in IcColIn, b \in IcColInRest :
       /\ ic_data = IcGridOf(a, b, 1)
       /\ ic_sigma = IcGridOf(a, b, 2)
  /\ ic_kept_data = ic_data /\ ic_kept_sigma = ic_sigma
  /\ ic_xidx \in IcStations
  /\ ic_nops = 0
  /\ ic_last = "none"
  /\ ic_prev = <<ic_data, ic_sigma>>

\* clean.py: remove_jump(jump_time,radius)
ClRemoveJump ==
  /\ ic_pc = "ready" /\ ic_kept_data # NoSet /\ ic_nops < MaxOps
  /\ \E jt \in JumpTimes, r \in Radii :
       LET res == ClJump(ic_data, ic_sigma, ic_xidx, jt, r)
       IN  /\ ic_data' = res.data
           /\ ic_sigma' = res.sigma
  /\ ic_last' = "remove_jump"
  /\ ic_nops' = ic_nops + 1
  /\ ic_prev' = <<ic_data, ic_sigma>>
  /\ UNCHANGED <<ic_pc, ic_kept_data, ic_kept_sigma, ic_xidx>>
  /\ UNCHANGED notIc

\* clean.py: remove_outliers(start_time,end_time)
ClRemoveOutliers ==
  /\ ic_pc = "ready" /\ ic_kept_data # NoSet /\ ic_nops < MaxOps
  /\ \E st \in EdgeTimes, en \in EdgeTimes :
       LET res == ClMask(ic_data, ic_sigma, ic_xidx, st, en)
       IN  /\ ic_data' = res.data
           /\ ic_sigma' = res.sigma
  /\ ic_last' = "remove_outliers"
  /\ ic_nops' = ic_nops + 1
  /\ ic_prev' = <<ic_data, ic_sigma>>
  /\ UNCHANGED <<ic_pc, ic_kept_data, ic_kept_sigma, ic_xidx>>
  /\ UNCHANGED notIc

\* clean.py: keep_changes()
ClKeepChanges ==
  /\ ic_pc = "ready" /\ ic_kept_data # NoSet /\ ic_nops < MaxOps
  /\ ic_kept_data' = ic_data
  /\ ic_kept_sigma' = ic_sigma
  /\ ic_last' = "keep_changes"
  /\ ic_nops' = ic_nops + 1
  /\ ic_prev' = <<ic_data, ic_sigma>>
  /\ UNCHANGED <<ic_pc, ic_data, ic_sigma, ic_xidx>>
  /\ UNCHANGED notIc

\* clean.py: undo_changes()
ClUndoChanges ==
  /\ ic_pc = "ready" /\ ic_kept_data # NoSet /\ ic_nops < MaxOps
  /\ ic_data' = ic_kept_data
  /\ ic_sigma' = ic_kept_sigma
  /\ ic_last' = "undo_changes"
  /\ ic_nops' = ic_nops + 1
  /\ ic_prev' = <<ic_data, ic_sigma>>
  /\ UNCHANGED <<ic_pc, ic_kept_data, ic_kept_sigma, ic_xidx>>
  /\ UNCHANGED notIc

\* ==================================================== the data checks
\* datacheck.check_data and datadict.DataDict.check_self_consistency on a
\* dictionary whose entries are all present and have consistent shapes.
Dirs == {"east", "north", "vertical"}

IsNan(v) == v = NaN
IsInf(v) == v = Inf

\* data[k] <= 0.0 for one entry; a comparison with nan is False
NonPositive_lt(s) == s # NaN /\ s < 0
NonPositive(s) == s # NaN /\ s <= 0

\* datacheck.check_positive_uncertainties raises
CheckPositiveRaises(std) == \E d \in Dirs, c \in Cells : NonPositive(std[d][c])

\* datacheck.check_missing_data raises
CheckMissingRaises(val, std) ==
  \E d \in Dirs :
    \/ \E c \in Cells : IsNan(val[d][c]) # IsInf(std[d][c])
    \/ \E c \in Cells : IsInf(val[d][c])
    \/ \E c \in Cells : IsNan(std[d][c])

\* datacheck.check_data raises
CheckDataRaises(val, std) ==
  CheckPositiveRaises(std) \/ CheckMissingRaises(val, std)

\* DataDict.check_self_consistency raises
SelfConsistencyRaises(val, std, ids) ==
  LET east_isinf == [c \in Cells |-> IsInf(std["east"][c])]
  IN  \/ \E c \in Cells : east_isinf[c] # IsInf(std["north"][c])
      \/ \E c \in Cells : east_isinf[c] # IsInf(std["vertical"][c])
      \/ \E k \in Dirs : \E c \in Cells : IsNan(val[k][c]) # east_isinf[c]
      \/ \E k \in Dirs : \E c \in Cells : NonPositive(std[k][c])
      \/ Cardinality({ids[x] : x \in Cols}) # Nx

\* the inputs: one grid point <<value, uncertainty>>; one point of the
\* dictionary is free, the others are the same within a component
DcCellIn     == {0, NaN, Inf} \X {1, 0, 0 - 1, Inf, NaN}
DcCellInRest == {<<0, 1>>, <<NaN, Inf>>}

InitDatacheck ==
  /\ dc_pc = "call"
  /\ dc_fn = "none"
  /\ \E fd \in Dirs, fc \in Cells, a \in DcCellIn, b \in [Dirs -> DcCellInRest] :
       /\ dc_val = [d \in Dirs |-> [c \in Cells |->
                      IF d = fd /\ c = fc THEN a[1] ELSE b[d][1]]]
       /\ dc_std = [d \in Dirs |-> [c \in Cells |->
                      IF d = fd /\ c = fc THEN a[2] ELSE b[d][2]]]
  /\ dc_id \in {[x \in Cols |-> x], [x \in Cols |-> 1]}
  /\ dc_isarr \in BOOLEAN
  /\ dc_entry = <<dc_val, dc_std>>

IdleDatacheck ==
  /\ dc_pc = "idle" /\ dc_fn = "none"
  /\ dc_val = << >> /\ dc_std = << >> /\ dc_id = << >>
  /\ dc_isarr = FALSE /\ dc_entry = << >>

\* datacheck.check_data(data)
CheckData ==
  /\ dc_pc = "call"
  /\ dc_pc' = IF CheckDataRaises(dc_val, dc_std) THEN "raised" ELSE "returned"
  /\ dc_fn' = "check_data"
  /\ UNCHANGED <<dc_val, dc_std, dc_id, dc_isarr, dc_entry>>
  /\ UNCHANGED notDc

\* DataDict.check_self_consistency(): self[k] = np.asarray(self[k]) binds
\* every key to an ndarray with the same contents
CheckSelfConsistency ==
  /\ dc_pc = "call"
  /\ dc_isarr' = TRUE
  /\ dc_pc' = IF SelfConsistencyRaises(dc_val, dc_std, dc_id)
                THEN "raised" ELSE "returned"
  /\ dc_fn' = "check_self_consistency"
  /\ UNCHANGED <<dc_val, dc_std, dc_id, dc_entry>>
  /\ UNCHANGED notDc

\* ================================ DiffSpecs and the penalty parameter
\* An option of a DiffSpecs instance is << >> when it is None and <<v>> when
\* it holds v.  diffs is a list of terms, a term is a list of derivative
\* orders, one for each dimension.
Unset   == << >>
Some(v) == <<v>>
IsUnset(o) == o = Unset

\* DiffSpecs.__init__: every option None, then updated with the arguments
EmptyPart == [basis |-> Unset, stencil_size |-> Unset, order |-> Unset,
              cuts |-> Unset, diffs |-> Unset, coeffs |-> Unset,
              diff_type |-> Unset]

NewDiffSpecs(time_diffs, space_diffs) ==
  [time  |-> [EmptyPart EXCEPT !.diffs = time_diffs],
   space |-> [EmptyPart EXCEPT !.diffs = space_diffs]]

\* the defaults of the rbf package, which is not part of the repository: the
\* values are left as the calls that give them
DefaultStencilSize(dim, diffs) ==
  [call |-> "rbf.fd._default_stencil_size", dim |-> dim, arg |-> diffs]
DefaultPolyOrder(stencil_size, dim) ==
  [call |-> "rbf.fd._default_poly_order", dim |-> dim, arg |-> stencil_size]

OrDefault(o, v) == IF IsUnset(o) THEN Some(v) ELSE o

\* DiffSpecs._fill_time
FillTime(T) ==
  IF IsUnset(T.diffs) THEN T
  ELSE LET coeffs  == OrDefault(T.coeffs, [i \in DOMAIN T.diffs[1] |-> 1])
           stencil == OrDefault(T.stencil_size, DefaultStencilSize(1, T.diffs[1]))
           dtype   == OrDefault(T.diff_type, "poly")
       IN  [basis        |-> IF dtype = Some("poly") THEN Unset
                             ELSE OrDefault(T.basis, "rbf.basis.phs3"),
            stencil_size |-> stencil,
            order        |-> IF dtype = Some("poly") THEN Unset
                             ELSE OrDefault(T.order, DefaultPolyOrder(stencil[1], 1)),
            cuts         |-> OrDefault(T.cuts, << >>),
            diffs        |-> T.diffs,
            coeffs       |-> coeffs,
            diff_type    |-> dtype]

\* _fill_space that leaves a diff_type the caller has set
FillSpace_keep(X) ==
  IF IsUnset(X.diffs) THEN X
  ELSE LET stencil == OrDefault(X.stencil_size, DefaultStencilSize(2, X.diffs[1]))
       IN  [basis        |-> OrDefault(X.basis, "rbf.basis.phs3"),
            stencil_size |-> stencil,
            order        |-> OrDefault(X.order, DefaultPolyOrder(stencil[1], 2)),
            cuts         |-> OrDefault(X.cuts, << >>),
            diffs        |-> X.diffs,
            coeffs       |-> OrDefault(X.coeffs, [i \in DOMAIN X.diffs[1] |-> 1]),
            diff_type    |-> OrDefault(X.diff_type, "rbf")]

\* DiffSpecs._fill_space
FillSpace(X) ==
  IF IsUnset(X.diffs) THEN X
  ELSE LET stencil == OrDefault(X.stencil_size, DefaultStencilSize(2, X.diffs[1]))
       IN  [basis        |-> OrDefault(X.basis, "rbf.basis.phs3"),
            stencil_size |-> stencil,
            order        |-> OrDefault(X.order, DefaultPolyOrder(stencil[1], 2)),
            cuts         |-> OrDefault(X.cuts, << >>),
            diffs        |-> X.diffs,
            coeffs       |-> OrDefault(X.coeffs, [i \in DOMAIN X.diffs[1] |-> 1]),
            diff_type    |-> Some("rbf")]

\* [sum(i) for i in diffs]
RECURSIVE SeqSum(_)
SeqSum(q) == IF Len(q) = 0 THEN 0 ELSE Head(q) + SeqSum(Tail(q))
Ords(diffs) == [i \in DOMAIN diffs |-> SeqSum(diffs[i])]

\* all([i==ords[0] for i in ords])
SameOrder(ords) == \A i \in DOMAIN ords : ords[i] = ords[1]

\* compute_penalty raises: iterating over None, a term of another order, or
\* no term at all
PenaltyRaises(d) ==
  \/ IsUnset(d.space.diffs) \/ IsUnset(d.time.diffs)
  \/ ~SameOrder(Ords(d.space.diffs[1]))
  \/ ~SameOrder(Ords(d.time.diffs[1]))
  \/ Len(d.space.diffs[1]) = 0 \/ Len(d.time.diffs[1]) = 0

RECURSIVE RatPow(_, _)
RatPow(a, n) ==
  IF n = 0 THEN Rat(1, 1)
  ELSE LET b == RatPow(a, n - 1) IN Rat(a[1] * b[1], a[2] * b[2])

\* rms(1.0/sigma): one term of np.sum(x**2) for x = 1.0/sigma
RmsTerm_abs(sg) == IF sg = Inf THEN RZero ELSE Rat(1, sg)
RmsTerm(sg) == Denom(sg)

\* rms(x)**2 = np.sum(x**2)/x.shape[0]; x.shape[0] is the number of epochs
MeanSquare(sg) ==
  RatDiv(QSum([c \in Cells |-> RmsTerm(sg[c])], Cells), Rat(Nt, 1))

\* the square of (time_scale/2.0)**tord*(length_scale/2.0)**xord/S for
\* S = 1.0/rms(1.0/sigma)
PenaltySq(L, T, sg, d) ==
  LET xord == Ords(d.space.diffs[1])[1]
      tord == Ords(d.time.diffs[1])[1]
      c    == Rat(RatPow(Rat(T, 2), tord)[1] * RatPow(Rat(L, 2), xord)[1],
                  RatPow(Rat(T, 2), tord)[2] * RatPow(Rat(L, 2), xord)[2])
      S2   == RatDiv(Rat(1, 1), MeanSquare(sg))
  IN  RatDiv(Rat(c[1] * c[1], c[2] * c[2]), S2)

\* the inputs
TimeDiffsIn  == {Unset, Some(<< <<1>> >>), Some(<< <<2>> >>),
                 Some(<< <<1>>, <<2>> >>)}
SpaceDiffsIn == {Unset, Some(<< <<0, 0>>, <<0, 0>> >>), Some(<< <<1, 0>> >>),
                 Some(<< <<2, 0>>, <<0, 2>> >>), Some(<< <<1, 0>>, <<2, 0>> >>)}
Scales       == {1, 4}
Factors      == {2, 3}
DsColIn      == [Rows -> {1, 2, Inf}]
DsColInRest  == {[i \in Rows |-> b] : b \in {1, Inf}}

\* every uncertainty multiplied by k
ScaleSigma(sg, k) == [c \in Cells |-> IF sg[c] = Inf THEN Inf ELSE k * sg[c]]

InitDiffSpecs ==
  /\ ds_pc = "new"
  /\ ds = NewDiffSpecs(Unset, Unset)
  /\ \E xs \in Cols, a \in DsColIn, b \in DsColInRest :
       ds_sigma = [c \in Cells |-> IF c[2] = xs THEN a[c[1]] ELSE b[c[1]]]
  /\ ds_T \in Scales /\ ds_L \in Scales
  /\ ds_k = 0
  /\ ds_pen = RNaN /\ ds_pen2 = RNaN

IdleDiffSpecs ==
  /\ ds_pc = "idle" /\ ds = << >> /\ ds_sigma = NoGrid
  /\ ds_T = 0 /\ ds_L = 0 /\ ds_k = 0
  /\ ds_pen = RNaN /\ ds_pen2 = RNaN

\* ds = DiffSpecs(time={'diffs':...},space={'diffs':...})
DsConstruct ==
  /\ ds_pc = "new"
  /\ \E td \in TimeDiffsIn, sd \in SpaceDiffsIn : ds' = NewDiffSpecs(td, sd)
  /\ ds_pc' = "made"
  /\ UNCHANGED <<ds_sigma, ds_T, ds_L, ds_k, ds_pen, ds_pen2>>
  /\ UNCHANGED notDs

\* ds.fill()
DsFill ==
  /\ ds_pc = "made"
  /\ ds' = [time |-> FillTime(ds.time), space |-> FillSpace(ds.space)]
  /\ ds_pc' = "filled"
  /\ UNCHANGED <<ds_sigma, ds_T, ds_L, ds_k, ds_pen, ds_pen2>>
  /\ UNCHANGED notDs

\* compute_penalty(length_scale,time_scale,sigma,diff_specs)
ComputePenalty ==
  /\ ds_pc \in {"made", "filled"}
  /\ IF PenaltyRaises(ds)
       THEN ds_pc' = "raised" /\ ds_pen' = ds_pen
       ELSE ds_pc' = "penalty" /\ ds_pen' = PenaltySq(ds_L, ds_T, ds_sigma, ds)
  /\ UNCHANGED <<ds, ds_sigma, ds_T, ds_L, ds_k, ds_pen2>>
  /\ UNCHANGED notDs

\* compute_penalty(length_scale,time_scale,k*sigma,diff_specs)
ComputePenaltyScaled ==
  /\ ds_pc = "penalty"
  /\ ds_k' \in Factors
  /\ ds_pen2' = PenaltySq(ds_L, ds_T, ScaleSigma(ds_sigma, ds_k'), ds)
  /\ ds_pc' = "penalty2"
  /\ UNCHANGED <<ds, ds_sigma, ds_T, ds_L, ds_pen>>
  /\ UNCHANGED notDs

\* ================= the uncertainties given to network_smoother and to gpr
\* the inputs: one station (for gpr one datum) has any series of
\* uncertainties, the others the same uncertainty throughout
VsColIn     == [Rows -> {1, 0, 0 - 1, Inf}]
VsColInRest == {[i \in Rows |-> b] : b \in {1, Inf}}

InitSigmaInput ==
  /\ vs_pc = "call"
  /\ vs_fn = "none"
  /\ \E xs \in Cols, a \in VsColIn, b \in VsColInRest :
       vs_s = [c \in Cells |-> IF c[2] = xs THEN a[c[1]] ELSE b[c[1]]]
  /\ vs_W = NoGrid
  /\ vs_out = << >>
  /\ vs_err = {}

IdleSigmaInput ==
  /\ vs_pc = "idle" /\ vs_fn = "none" /\ vs_s = NoGrid /\ vs_W = NoGrid
  /\ vs_out = << >> /\ vs_err = {}

\* W = scipy.sparse.diags(1.0/sigma_flat,0)
Weights(sg) == [c \in DOMAIN sg |-> Rat(1, sg[c])]

\* network_smoother up to the weighted system: the copy of sigma with np.inf
\* replaced, then G = W.dot(G), u_flat = W.dot(u_flat)
NsAssemble ==
  /\ vs_pc = "call"
  /\ vs_W' = Weights(ClampInf(vs_s))
  /\ vs_fn' = "network_smoother"
  /\ vs_pc' = "assembled"
  /\ UNCHANGED <<vs_s, vs_out, vs_err>>
  /\ UNCHANGED notVs

\* network_smoother from the cross validation on: the solvers are not part of
\* the repository and may return or raise
NsSolve ==
  /\ vs_pc = "assembled"
  /\ vs_pc' \in {"returned", "raised"}
  /\ UNCHANGED <<vs_fn, vs_s, vs_W, vs_out, vs_err>>
  /\ UNCHANGED notVs

\* gpr.task(i) raises ValueError: np.any(s[i] <= 0.0)
TaskRejects(sg, i) == \E c \in Cells : c[1] = i /\ sg[c] <= 0

\* what task_with_error_catch(i) returns when task(i) raises:
\* np.full(x.shape[0],np.nan), np.full(x.shape[0],np.inf)
Placeholder == [mean |-> <<"nan">>, sigma |-> <<"inf">>]
\* what task(i) returns otherwise, post_gp.meansd(x): rbf.gauss is not part
\* of the repository, the result is left as the call that gives it, which
\* reads s[i] (and d[i]) only
Posterior(sg, i) ==
  LET si == [n \in Cols |-> sg[<<i, n>>]]
  IN  [mean |-> <<"out_mean_i", i, si>>, sigma |-> <<"out_sigma_i", i, si>>]

\* task_with_error_catch(i), err being the datasets whose linear algebra
\* raises
TaskWithErrorCatch_any(sg, err, i) ==
  IF err # {} \/ TaskRejects(sg, i) THEN Placeholder ELSE Posterior(sg, i)
TaskWithErrorCatch(sg, err, i) ==
  IF TaskRejects(sg, i) \/ i \in err THEN Placeholder ELSE Posterior(sg, i)

\* gpr(y,d,s,...): out = parmap(task_with_error_catch,range(q)), then
\* out_mean = np.array([k[0] for k in out]), out_sigma likewise
Gpr ==
  /\ vs_pc = "call"
  /\ \E err \in SUBSET Rows :
       /\ vs_err' = err
       /\ vs_out' = [i \in Rows |-> TaskWithErrorCatch(vs_s, err, i)]
  /\ vs_fn' = "gpr"
  /\ vs_pc' = "returned"
  /\ UNCHANGED <<vs_s, vs_W>>
  /\ UNCHANGED notVs

\* ================================================ diff_matrix and diff
\* A sparse matrix is a function from its stored (row, column) pairs to their
\* values; rows and columns are flat indices into the (Nt,Nx) grid.  The
\* weights rbf.fd computes are not part of the repository: a weight is left
\* as the call that gives it, <<"w", axis, nodes, r, c>>, and every pair of
\* nodes of a sub-operator is taken as stored.
NFlat == Nt * Nx
\* np.arange(Nt*Nx).reshape((Nt,Nx))
wrapped_indices(ti, xi) == (ti - 1) * Nx + xi
CellOf(k) == <<((k - 1) \div Nx) + 1, ((k - 1) % Nx) + 1>>

ValZero == <<"zero">>
ValOne  == <<"one">>

\* mask = np.zeros(...,dtype=bool) when mask is None
MaskOrZeros(m) == IF IsUnset(m) THEN {} ELSE m[1]

\* scipy.sparse.csr_matrix(((~mask).flatten().astype(float),(rows,cols)))
MaskedIdentity(mask) ==
  [e \in {<<k, k>> : k \in 1..NFlat} |->
     IF CellOf(e[1]) \in mask THEN ValZero ELSE ValOne]

\* the increasing sequence of the members of a set of indices
RECURSIVE Ascending(_)
Ascending(S) ==
  IF S = {} THEN << >>
  ELSE LET m == CHOOSE a \in S : \A b \in S : a <= b
       IN  <<m>> \o Ascending(S \ {m})

\* sub_idx, = np.nonzero(~mask[:,i])
SubIdxTime_all(mask, i) == Ascending(Rows)
SubIdxTime(mask, i) == Ascending({ti \in Rows : <<ti, i>> \notin mask})
\* sub_idx, = np.nonzero(~mask[i,:])
SubIdxSpace(mask, i) == Ascending({xi \in Cols : <<i, xi>> \notin mask})

\* key = tuple(mask[:,i])
TimeKey_count(mask, i) == Cardinality({ti \in Rows : <<ti, i>> \in mask})
TimeKey(mask, i) == [ti \in Rows |-> <<ti, i>> \in mask]
\* key = tuple(mask[i,:])
SpaceKey(mask, i) == [xi \in Cols |-> <<i, xi>> \in mask]

\* Li of rbf.fd for the nodes sub_idx, then coo_matrix((vi,(sub_idx[ri],
\* sub_idx[ci])))
SubOperator(axis, sub_idx) ==
  [e \in {<<sub_idx[r], sub_idx[c]>> : r \in DOMAIN sub_idx, c \in DOMAIN sub_idx} |->
     LET r == CHOOSE k \in DOMAIN sub_idx : sub_idx[k] = e[1]
         c == CHOOSE k \in DOMAIN sub_idx : sub_idx[k] = e[2]
     IN  <<"w", axis, sub_idx, r, c>>]

\* the loop over the stations of _time_diff_matrix from station i on: Lsubs
RECURSIVE TimeLsubs(_, _, _, _)
TimeLsubs(mask, i, cache, Lsubs) ==
  IF i > Nx THEN Lsubs
  ELSE LET key == TimeKey(mask, i)
       IN  IF key \in DOMAIN cache
             THEN TimeLsubs(mask, i + 1, cache, Append(Lsubs, cache[key]))
             ELSE LET Li == SubOperator("time", SubIdxTime(mask, i))
                  IN  TimeLsubs(mask, i + 1, cache @@ (key :> Li), Append(Lsubs, Li))

\* the loop over the epochs of _space_diff_matrix
RECURSIVE SpaceLsubs(_, _, _, _)
SpaceLsubs(mask, i, cache, Lsubs) ==
  IF i > Nt THEN Lsubs
  ELSE LET key == SpaceKey(mask, i)
       IN  IF key \in DOMAIN cache
             THEN SpaceLsubs(mask, i + 1, cache, Append(Lsubs, cache[key]))
             ELSE LET Li == SubOperator("space", SubIdxSpace(mask, i))
                  IN  SpaceLsubs(mask, i + 1, cache @@ (key :> Li), Append(Lsubs, Li))

\* rows = wrapped_indices[ri,i], cols = wrapped_indices[ci,i]
TimeMaster(Lsubs) ==
  [e \in UNION {{<<wrapped_indices(rc[1], i), wrapped_indices(rc[2], i)>> :
                   rc \in DOMAIN Lsubs[i]} : i \in DOMAIN Lsubs} |->
     LET i == CellOf(e[1])[2]
     IN  Lsubs[i][<<CellOf(e[1])[1], CellOf(e[2])[1]>>]]

\* rows = wrapped_indices[i,ri], cols = wrapped_indices[i,ci]
SpaceMaster(Lsubs) ==
  [e \in UNION {{<<wrapped_indices(i, rc[1]), wrapped_indices(i, rc[2])>> :
                   rc \in DOMAIN Lsubs[i]} : i \in DOMAIN Lsubs} |->
     LET i == CellOf(e[1])[1]
     IN  Lsubs[i][<<CellOf(e[1])[2], CellOf(e[2])[2]>>]]

time_diff_matrix(mask)  == TimeMaster(TimeLsubs(mask, 1, << >>, << >>))
space_diff_matrix(mask) == SpaceMaster(SpaceLsubs(mask, 1, << >>, << >>))

\* Dt.dot(Dx): an entry is the sum of the products Dt[p,k]*Dx[k,q]; a
\* product with a zero factor adds nothing, an entry with no product is not
\* stored
Dot(A, B) ==
  LET terms(p, q) == {<<A[<<p, k>>], B[<<k, q>>]>> :
                        k \in {j \in 1..NFlat : /\ <<p, j>> \in DOMAIN A
                                                /\ <<j, q>> \in DOMAIN B
                                                /\ A[<<p, j>>] # ValZero
                                                /\ B[<<j, q>>] # ValZero}}
  IN  [e \in {d \in (1..NFlat) \X (1..NFlat) : terms(d[1], d[2]) # {}} |->
         terms(e[1], e[2])]

\* diff_matrix(t,x,ds,mask)
DiffMatrixOf(m, time_set, space_set) ==
  LET mask == MaskOrZeros(m)
      Dt   == IF time_set THEN time_diff_matrix(mask) ELSE MaskedIdentity(mask)
      Dx   == IF space_set THEN space_diff_matrix(mask) ELSE MaskedIdentity(mask)
  IN  [Dt |-> Dt, Dx |-> Dx, D |-> Dot(Dt, Dx)]

\* D.dot(u_flat.T): the rows whose result is nan, for u nan at unan
DotNan(D, unan) ==
  {p \in 1..NFlat : \E q \in 1..NFlat :
      <<p, q>> \in DOMAIN D /\ CellOf(q) \in unan}

\* u_diff[...,mask] = np.nan: for a boolean array the points where it is True,
\* for None (np.newaxis) the whole array
AssignMask(nanset, m) == IF IsUnset(m) THEN Cells ELSE nanset \cup m[1]

InitDiff ==
  /\ df_pc = "call"
  /\ df_mask \in {Unset} \cup {Some(M) : M \in SUBSET Cells}
  /\ df_time \in BOOLEAN /\ df_space \in BOOLEAN
  /\ df_unan \in {{}, MaskOrZeros(df_mask)}
  /\ df_Dt = << >> /\ df_Dx = << >> /\ df_D = << >>
  /\ df_out = {}

IdleDiff ==
  /\ df_pc = "idle" /\ df_mask = Unset /\ df_time = FALSE /\ df_space = FALSE
  /\ df_unan = {} /\ df_Dt = << >> /\ df_Dx = << >> /\ df_D = << >>
  /\ df_out = {}

\* D = diff_matrix(t,x,ds,mask)
DiffMatrix ==
  /\ df_pc = "call"
  /\ LET r == DiffMatrixOf(df_mask, df_time, df_space)
     IN  df_Dt' = r.Dt /\ df_Dx' = r.Dx /\ df_D' = r.D
  /\ df_pc' = "matrix"
  /\ UNCHANGED <<df_mask, df_time, df_space, df_unan, df_out>>
  /\ UNCHANGED notDf

\* u_diff = diff(t,x,u,ds,mask)
Diff ==
  /\ df_pc = "call"
  /\ LET r == DiffMatrixOf(df_mask, df_time, df_space)
     IN  /\ df_Dt' = r.Dt /\ df_Dx' = r.Dx /\ df_D' = r.D
         /\ df_out' = AssignMask({CellOf(p) : p \in DotNan(r.D, df_unan)}, df_mask)
  /\ df_pc' = "diffed"
  /\ UNCHANGED <<df_mask, df_time, df_space, df_unan>>
  /\ UNCHANGED notDf

\* ============================================ smooth._bootstrap_uncertainty
\* G has one column, so a solution is a number; the solver is not part of the
\* repository and may return any solution or raise
MaxItr   == 3
ItrIn    == 0..MaxItr
SolnVals == {0, 1, 3}

\* _RunningVariance.__init__
NewRunningVariance == [sum |-> NoSet, sumsqs |-> NoSet, count |-> 0]

\* _RunningVariance.add(entry)
RvAdd(rv, x) ==
  IF rv.sum = NoSet
    THEN [sum |-> <<x>>, sumsqs |-> <<x * x>>, count |-> rv.count + 1]
    ELSE [sum |-> <<rv.sum[1] + x>>,
          sumsqs |-> <<rv.sumsqs[1] + x * x>>,
          count |-> rv.count + 1]

\* _RunningVariance.get_variance()
RvGetVariance_n(rv) ==
  QDiv(RatSub(Rat(rv.sumsqs[1], 1), Rat(rv.sum[1] * rv.sum[1], rv.count)),
       Rat(rv.count, 1))
RvGetVariance(rv) ==
  QDiv(RatSub(Rat(rv.sumsqs[1], 1), Rat(rv.sum[1] * rv.sum[1], rv.count)),
       Rat(rv.count - 1, 1))

InitBootstrap ==
  /\ bs_pc = "call" /\ bs_itr \in ItrIn
  /\ bs_calls = << >> /\ bs_solns = << >>
  /\ bs_soln = NoSet /\ bs_out = NoSet

IdleBootstrap ==
  /\ bs_pc = "idle" /\ bs_itr = 0 /\ bs_calls = << >> /\ bs_solns = << >>
  /\ bs_soln = NoSet /\ bs_out = NoSet

\* if itr <= 1: return np.zeros(G.shape[1])
BsReturnZeros ==
  /\ bs_pc = "call" /\ bs_itr <= 1
  /\ bs_out' = RZero
  /\ bs_pc' = "returned"
  /\ UNCHANGED <<bs_itr, bs_calls, bs_solns, bs_soln>>
  /\ UNCHANGED notBs

\* soln = _RunningVariance()
BsBegin ==
  /\ bs_pc = "call" /\ bs_itr > 1
  /\ bs_soln' = NewRunningVariance
  /\ bs_pc' = "loop"
  /\ UNCHANGED <<bs_itr, bs_calls, bs_solns, bs_out>>
  /\ UNCHANGED notBs

\* one pass of the loop: solni = modest.sparse_reg_petsc(G,L,d,**kwargs)
\* returns, soln.add(solni)
BsSolve ==
  /\ bs_pc = "loop" /\ Len(bs_calls) < bs_itr
  /\ \E solni \in SolnVals :
       /\ bs_solns' = Append(bs_solns, solni)
       /\ bs_soln' = RvAdd(bs_soln, solni)
  /\ bs_calls' = Append(bs_calls, <<"G", "L">>)
  /\ UNCHANGED <<bs_pc, bs_itr, bs_out>>
  /\ UNCHANGED notBs

\* one pass of the loop: the solver raises, nothing catches it
BsSolveRaises ==
  /\ bs_pc = "loop" /\ Len(bs_calls) < bs_itr
  /\ bs_calls' = Append(bs_calls, <<"G", "L">>)
  /\ bs_pc' = "raised"
  /\ UNCHANGED <<bs_itr, bs_solns, bs_soln, bs_out>>
  /\ UNCHANGED notBs

\* return np.sqrt(soln.get_variance())
BsReturn ==
  /\ bs_pc = "loop" /\ Len(bs_calls) = bs_itr
  /\ bs_out' = RvGetVariance(bs_soln)
  /\ bs_pc' = "returned"
  /\ UNCHANGED <<bs_itr, bs_calls, bs_solns, bs_soln>>
  /\ UNCHANGED notBs

\* ================================================ clean.station_is_duplicate
NSta     == 4
Stations == 1..NSta
PosVals  == {0, 1, 2, 5, 9, 14}
\* 100*log10(r), rounded, for the distances r = 1..14
LogTable == <<0, 30, 48, 60, 70, 78, 85, 90, 95, 100, 104, 108, 111, 115>>
DupTolIn == {<<1, 2>>, <<4, 1>>}

\* the increasing sequences of NSta positions
DupPosIn ==
  {p \in [Stations -> PosVals] : \A i \in 1..(NSta - 1) : p[i] < p[i + 1]}

\* dist[:,1] of T.query(x,2): the distance to the nearest other station
NearestDist(x, S, i) ==
  LET dists == {Abs(x[i] - x[j]) : j \in S \ {i}}
  IN  CHOOSE d \in dists : \A e \in dists : d <= e
\* idx[:,1]: a nearest other station; cKDTree decides between equally near ones
NearestIdx(x, S, i) ==
  {j \in S \ {i} : Abs(x[i] - x[j]) = NearestDist(x, S, i)}
\* logr = np.log10(r)
LogR(x, S, i) == LogTable[NearestDist(x, S, i)]

\* logr < np.mean(logr) - tol*np.std(logr), for station i among the stations S
BelowCutoff(x, S, tl, i) ==
  LET n   == Cardinality(S)
      l   == [j \in S |-> LogR(x, S, j)]
      sm  == SumOver(l, S)
      sq  == SumOver([j \in S |-> l[j] * l[j]], S)
      a   == sm - n * l[i]
  IN  /\ a > 0
      /\ a * a * tl[2] * tl[2] > tl[1] * tl[1] * (n * sq - sm * sm)

\* idx1 = np.argmin(logr): the first station with the smallest logr
ArgminLogR(x, S) ==
  CHOOSE i \in S :
    \A j \in S : LogR(x, S, i) < LogR(x, S, j)
                 \/ (LogR(x, S, i) = LogR(x, S, j) /\ i <= j)

\* count,out = min((count1,idx1),(count2,idx2))
LeastUseful(obs, i1, i2) ==
  IF obs[i1] < obs[i2] \/ (obs[i1] = obs[i2] /\ i1 <= i2) THEN i1 ELSE i2

\* _identify_duplicate_station(sigma[:,~is_duplicate],x[~is_duplicate],tol):
\* the triples idx1, idx2, out it can compute, none when it returns None
IdentifyDuplicate(x, obs, tl, S) ==
  IF Cardinality(S) <= 1 \/ ~\E i \in S : BelowCutoff(x, S, tl, i)
    THEN {}
    ELSE LET idx1 == ArgminLogR(x, S)
         IN  {<<idx1, idx2, LeastUseful(obs, idx1, idx2)>> :
                idx2 \in NearestIdx(x, S, idx1)}

InitDuplicate ==
  /\ dup_pc = "call"
  /\ dup_x \in DupPosIn
  /\ dup_obs \in [Stations -> 0..Nt]
  /\ dup_tol \in DupTolIn
  /\ dup_flags = {}
  /\ dup_found = << >>

IdleDuplicate ==
  /\ dup_pc = "idle" /\ dup_x = << >> /\ dup_obs = << >> /\ dup_tol = <<0, 1>>
  /\ dup_flags = {} /\ dup_found = << >>

\* station_is_duplicate: _identify_duplicate_station returns None, the loop
\* is left and is_duplicate is returned
DupReturn ==
  /\ dup_pc = "call"
  /\ IdentifyDuplicate(dup_x, dup_obs, dup_tol, Stations \ dup_flags) = {}
  /\ dup_pc' = "returned"
  /\ UNCHANGED <<dup_x, dup_obs, dup_tol, dup_flags, dup_found>>
  /\ UNCHANGED notDup

\* station_is_duplicate: _identify_duplicate_station returns an index; the
\* module has no name `logger`, so logger.info(...) raises NameError before
\* is_duplicate[global_idx] = True
DupRaise ==
  /\ dup_pc = "call"
  /\ \E f \in IdentifyDuplicate(dup_x, dup_obs, dup_tol, Stations \ dup_flags) :
       dup_found' = f
  /\ dup_pc' = "raised"
  /\ UNCHANGED <<dup_x, dup_obs, dup_tol, dup_flags>>
  /\ UNCHANGED notDup

\* ================== clean.most, time_lacks_data and station_lacks_data
CutoffIn == {<<0, 1>>, <<1, 2>>, <<1, 1>>}

\* most(a,axis,cutoff) for one slice along the axis: asum >= b*cutoff, where
\* a is True at the members of T and the slice has b entries
Most(T, b, cutoff) == Cardinality(T) * cutoff[2] >= b * cutoff[1]

InitLacksData ==
  /\ ld_pc = "call" /\ ld_fn = "none"
  /\ ld_inf \in SUBSET Cells
  /\ ld_cutoff \in CutoffIn
  /\ ld_out = << >>

IdleLacksData ==
  /\ ld_pc = "idle" /\ ld_fn = "none" /\ ld_inf = {} /\ ld_cutoff = <<0, 1>>
  /\ ld_out = << >>

\* time_lacks_data(sigma,cutoff): most(np.isinf(sigma),axis=1,cutoff=cutoff)
TimeLacksData ==
  /\ ld_pc = "call"
  /\ ld_out' = [i \in Rows |-> Most({c \in ld_inf : c[1] = i}, Nx, ld_cutoff)]
  /\ ld_fn' = "time_lacks_data"
  /\ ld_pc' = "returned"
  /\ UNCHANGED <<ld_inf, ld_cutoff>>
  /\ UNCHANGED notLd

\* station_lacks_data(sigma,cutoff): most(np.isinf(sigma),axis=0,cutoff=cutoff)
StationLacksData ==
  /\ ld_pc = "call"
  /\ ld_out' = [j \in Cols |-> Most({c \in ld_inf : c[2] = j}, Nt, ld_cutoff)]
  /\ ld_fn' = "station_lacks_data"
  /\ ld_pc' = "returned"
  /\ UNCHANGED <<ld_inf, ld_cutoff>>
  /\ UNCHANGED notLd

\* ======================================================= gpr._is_outlier
\* The inputs are restricted to a family whose linear algebra has a closed
\* form: s = 1, mu = 0, no basis functions (p has no columns) and the prior
\* covariance sigma = PriorVar at every pair of points.  Then
\* a = PriorVar*J + I over the q points that are not out, its inverse is
\* I - PriorVar/(1 + PriorVar*q)*J, and pred = PriorVar*S/(1 + PriorVar*q) at
\* every point, S being the sum of d over the points that are not out.
NObs     == 4
MaxPasses == 4
Obs      == 1..NObs
PriorVar == 1
GoDataIn == [Obs -> {0, 1, 4, 9}]
GoTolIn  == {1, 2}

\* (1 + PriorVar*q)*res for every point: res = np.abs(pred - d)/s
ScaledRes(d, out) ==
  LET keep == Obs \ out
      q    == Cardinality(keep)
      S    == SumOver(d, keep)
  IN  [i \in Obs |-> Abs(PriorVar * S - d[i] * (1 + PriorVar * q))]

\* res > tol*rms, rms = np.sqrt(np.mean(res[~out]**2)); with no point left
\* the mean of the empty array is nan and the comparison is False everywhere
ExceedsRms(d, out, tl) ==
  LET keep == Obs \ out
      q    == Cardinality(keep)
      e    == ScaledRes(d, out)
      sq   == SumOver([i \in Obs |-> e[i] * e[i]], keep)
  IN  {i \in Obs : q > 0 /\ e[i] * e[i] * q > tl * tl * sq}

InitIsOutlier ==
  /\ go_pc = "call"
  /\ go_d \in GoDataIn
  /\ go_tol \in GoTolIn
  /\ go_out = {} /\ go_hist = << >>

IdleIsOutlier ==
  /\ go_pc = "idle" /\ go_d = << >> /\ go_tol = 0 /\ go_out = {}
  /\ go_hist = << >>

\* out = np.zeros(d.shape[0],dtype=bool)
GoBegin ==
  /\ go_pc = "call"
  /\ go_out' = {} /\ go_hist' = <<{}>>
  /\ go_pc' = "loop"
  /\ UNCHANGED <<go_d, go_tol>>
  /\ UNCHANGED notGo

\* one pass of the loop that ends with out = (res > tol*rms)
GoIterate ==
  /\ go_pc = "loop" /\ Len(go_hist) <= MaxPasses
  /\ ExceedsRms(go_d, go_out, go_tol) # go_out
  /\ go_out' = ExceedsRms(go_d, go_out, go_tol)
  /\ go_hist' = Append(go_hist, go_out')
  /\ UNCHANGED <<go_pc, go_d, go_tol>>
  /\ UNCHANGED notGo

\* the pass that ends with break, then return out
GoReturn ==
  /\ go_pc = "loop"
  /\ ExceedsRms(go_d, go_out, go_tol) = go_out
  /\ go_pc' = "returned"
  /\ UNCHANGED <<go_d, go_tol, go_out, go_hist>>
  /\ UNCHANGED notGo

\* ========================================================= DiffSpecs.fill
\* the dictionaries given to DiffSpecs(time=...,space=...): every option is
\* either left out or set by the caller
FlTimeIn ==
  {[EmptyPart EXCEPT !.diffs = d, !.diff_type = ty, !.basis = b, !.order = o,
                     !.stencil_size = n] :
     d \in {Unset, Some(<< <<1>> >>)},
     ty \in {Unset, Some("poly"), Some("rbf")},
     b \in {Unset, Some("rbf.basis.phs5")},
     o \in {Unset, Some(3)},
     n \in {Unset, Some(7)}}
FlSpaceIn ==
  {[EmptyPart EXCEPT !.diffs = d, !.diff_type = ty, !.order = o, !.cuts = c,
                     !.coeffs = k] :
     d \in {Unset, Some(<< <<2, 0>>, <<0, 2>> >>)},
     ty \in {Unset, Some("poly"), Some("rbf")},
     o \in {Unset, Some(3)},
     c \in {Unset, Some(<<"cut">>)},
     k \in {Unset, Some(<<2, 2>>)}}

InitFill ==
  /\ fl_pc = "made"
  /\ fl_before \in [time : FlTimeIn, space : FlSpaceIn]
  /\ fl_ds = fl_before

IdleFill == fl_pc = "idle" /\ fl_before = << >> /\ fl_ds = << >>

\* ds.fill(): self._fill_time(), self._fill_space()
FlFill ==
  /\ fl_pc = "made"
  /\ fl_ds' = [time |-> FillTime(fl_ds.time), space |-> FillSpace(fl_ds.space)]
  /\ fl_pc' = "filled"
  /\ UNCHANGED fl_before
  /\ UNCHANGED notFl

\* ======================================= ioconv.csv_from_dict, dict_from_csv
\* One component is followed (north, whose uncertainty decides what is
\* written).  Values and uncertainties are counted in units of 1e-6, times in
\* days; a missing observation is nan with uncertainty np.inf.
CsvIds    == [j \in Cols |-> <<"STA", j>>]
CsvTimes  == [i \in Rows |-> 57000 + i]
CsvCellIn == {<<NaN, Inf>>, <<1000000, 100000>>, <<1234567, 100000>>}

\* '%.5f' % v, read back by np.genfromtxt: v rounded to a multiple of 1e-5
Fmt5(v) == ((v + 5) \div 10) * 10

\* the stations csv_from_dict writes: not np.all(np.isinf(north_std[:,i]))
Written(d) == {j \in Cols : \E i \in Rows : d.north_std[<<i, j>>] # Inf}

\* _write_csv(dict_i): the lines of station j, one for every epoch whose
\* north_std is not np.inf
CsvLines(d, j) ==
  LET keep == Ascending({i \in Rows : d.north_std[<<i, j>>] # Inf})
  IN  [k \in DOMAIN keep |->
         [time |-> d.time[keep[k]],
          north |-> Fmt5(d.north[<<keep[k], j>>]),
          north_std |-> Fmt5(d.north_std[<<keep[k], j>>])]]

\* csv_from_dict: the blocks joined by '***', in the order of the stations
CsvBlocks(d) ==
  LET js == Ascending(Written(d))
  IN  [k \in DOMAIN js |-> [id |-> d.id[js[k]], lines |-> CsvLines(d, js[k])]]

\* _dict_from_text: the grid times np.arange(start_time,stop_time+1,1)
GridTimes(f) ==
  LET ts == UNION {{f[k].lines[n].time : n \in DOMAIN f[k].lines} : k \in DOMAIN f}
  IN  Ascending({t \in 57000..(57000 + Nt + 1) :
                   /\ \E a \in ts : a <= t
                   /\ \E b \in ts : t <= b})

\* MeanInterpolant at a grid time: the weighted mean of the one line of that
\* day, which is that line's value and uncertainty, and 0.0 with np.inf when
\* the station has no line for the day
Interpolate(lines, t) ==
  IF \E n \in DOMAIN lines : lines[n].time = t
    THEN LET n == CHOOSE m \in DOMAIN lines : lines[m].time = t
         IN  <<lines[n].north, lines[n].north_std>>
    ELSE <<0, Inf>>

\* _dict_from_text(infile,'csv',perts)
DictFromText(f) ==
  LET time == GridTimes(f)
      grid == (DOMAIN time) \X (DOMAIN f)
  IN  [id |-> [k \in DOMAIN f |-> f[k].id],
       time |-> time,
       north |-> [c \in grid |-> Interpolate(f[c[2]].lines, time[c[1]])[1]],
       north_std |-> [c \in grid |-> Interpolate(f[c[2]].lines, time[c[1]])[2]]]

InitCsv ==
  /\ cv_pc = "call"
  /\ \E g \in [Cells -> CsvCellIn] :
       cv_dict = [id |-> CsvIds, time |-> CsvTimes,
                  north |-> [c \in Cells |-> g[c][1]],
                  north_std |-> [c \in Cells |-> g[c][2]]]
  /\ cv_file = << >> /\ cv_back = << >>

IdleCsv == cv_pc = "idle" /\ cv_dict = << >> /\ cv_file = << >> /\ cv_back = << >>

\* csv_from_dict(outfile,data_dict)
CsvFromDict ==
  /\ cv_pc = "call"
  /\ cv_file' = CsvBlocks(cv_dict)
  /\ cv_pc' = "written"
  /\ UNCHANGED <<cv_dict, cv_back>>
  /\ UNCHANGED notCv

\* dict_from_csv(infile): a file with no station is the empty string, in
\* which _get_field finds no '4-character id' and raises ValueError
DictFromCsv ==
  /\ cv_pc = "written"
  /\ IF cv_file = << >>
       THEN cv_pc' = "raised" /\ cv_back' = cv_back
       ELSE cv_pc' = "read" /\ cv_back' = DictFromText(cv_file)
  /\ UNCHANGED <<cv_dict, cv_file>>
  /\ UNCHANGED notCv

\* ==================================================== main.pygeons_autoclean
default_tol == 4      \* autoclean(...,tol=4.0)
PaArgsIn ==
  [outlier_tol : 1..5, output_stem : {Unset, Some("stem")},
   time_exponent : {0, 1}, space_exponent : {0, 1, 2}]
Directions == <<"east", "north", "vertical">>

\* the tol autoclean runs with for the keywords of a call: its default when
\* the call gives none
AutocleanTol(kw) == IF "tol" \in DOMAIN kw THEN kw.tol ELSE default_tol

InitPygeonsAutoclean ==
  /\ pa_pc = "call"
  /\ pa_args \in PaArgsIn
  /\ pa_logged = Unset
  /\ pa_calls = << >>

IdlePygeonsAutoclean ==
  /\ pa_pc = "idle" /\ pa_args = << >> /\ pa_logged = Unset /\ pa_calls = << >>

\* pygeons_autoclean(input_file,...,outlier_tol): the three calls
\* autoclean(t,xy,data[dir],data[dir+'_std_dev'],network_model=...,
\* network_params=...,station_model=...,station_params=...)
PygeonsAutoclean ==
  /\ pa_pc = "call"
  /\ IF pa_args.time_exponent # 0 \/ pa_args.space_exponent # 1
       THEN pa_pc' = "raised" /\ UNCHANGED <<pa_logged, pa_calls>>
       ELSE /\ pa_logged' = Some(pa_args.outlier_tol)
            /\ pa_calls' =
                 [k \in DOMAIN Directions |->
                    [dir |-> Directions[k],
                     tol |-> AutocleanTol([network_model |-> "network_model",
                                           station_model |-> "station_model"])]]
            /\ pa_pc' = "returned"
  /\ UNCHANGED pa_args
  /\ UNCHANGED notPa


\* ------------------------------------------------ InteractiveCleaner events
\* iclean.py 161-163: the mode is None after construction
NoMode == "None"

Modes == {NoMode, "OUTLIER_REMOVAL", "JUMP_REMOVAL"}

\* Where the pointer is when an event is delivered: over an axis of the time
\* series figure, over an axis of the map figure, or over no axis at all.
Wheres == {"ts", "map", "none"}

XData == {1, 3}

Buttons == {1, 3}

Keys == {"c", "d", "j", "a"}

MouseEvents(type) ==
  [type : {type}, button : Buttons, key : {""}, where : Wheres, xdata : XData]

KeyEvents(type) ==
  [type : {type}, button : {0}, key : Keys, where : Wheres, xdata : XData]

\* event.inaxes is not None and event.inaxes.figure is self.ts_fig
InTs(e) == e.where = "ts"

\* _set_mode: only an unset mode is set
SetMode_always(mode, name) == name

SetMode(mode, name) == IF mode = NoMode THEN name ELSE mode

\* _unset_mode: only the named mode is unset
UnsetMode(mode, name) == IF mode = name THEN NoMode ELSE mode

\* on_mouse_press, 246-249: a rectangle of no width and no colour at t1
NewRect(t1) == [x |-> t1, width |-> 0, color |-> "none"]

\* on_mouse_move, 263-279: the rectangle is redrawn for the mode
Redraw(r, mode, t1, t2) ==
  IF mode = "OUTLIER_REMOVAL"
    THEN [x |-> t1, width |-> t2 - t1, color |-> "r"]
    ELSE IF mode = "JUMP_REMOVAL"
      THEN [x |-> t1 - (t2 - t1), width |-> 2 * (t2 - t1), color |-> "b"]
      ELSE [x |-> r.x, width |-> 0, color |-> "none"]

\* The body of on_mouse_move, which the key handlers also run, under the
\* given mode: nothing unless the button is held and the pointer is inside
\* the time series figure.
MouseMoved(mode, e) ==
  IF ev_pressed /\ InTs(e)
    THEN /\ ev_t2' = Some(e.xdata)
         /\ ev_rect' = Some(Redraw(ev_rect[1], mode, ev_t1[1], e.xdata))
    ELSE UNCHANGED <<ev_t2, ev_rect>>

\* on_mouse_release, 296-330: the cleaning method called for the mode
Dispatch(mode, all, t1, t2) ==
  IF mode = "OUTLIER_REMOVAL"
    THEN <<[method |-> "remove_outliers", all |-> all,
            a |-> IF t1 < t2 THEN t1 ELSE t2,
            b |-> IF t1 < t2 THEN t2 ELSE t1]>>
    ELSE IF mode = "JUMP_REMOVAL"
      THEN <<[method |-> "remove_jump", all |-> all,
              a |-> t1, b |-> Abs(t2 - t1)]>>
      ELSE << >>

\* the history variables every handler keeps up to date
Handled(e) ==
  /\ ev_last' = Some([event |-> e, mode |-> ev_mode, armed |-> ev_armed])
  /\ ev_armed' = IF e.type = "button_press" /\ e.button = 1 /\ InTs(e)
                   THEN TRUE
                   ELSE IF e.type = "button_release" /\ e.button = 1
                     THEN FALSE
                     ELSE ev_armed

InitEvents ==
  /\ ev_mode = NoMode
  /\ ev_all = FALSE
  /\ ev_pressed = FALSE
  /\ ev_t1 = Unset
  /\ ev_t2 = Unset
  /\ ev_rect = Unset
  /\ ev_last = Unset
  /\ ev_calls = << >>
  /\ ev_armed = FALSE

IdleEvents ==
  /\ ev_mode = "idle" /\ ev_all = FALSE /\ ev_pressed = FALSE
  /\ ev_t1 = Unset /\ ev_t2 = Unset /\ ev_rect = Unset /\ ev_last = Unset
  /\ ev_calls = << >> /\ ev_armed = FALSE

\* on_mouse_press
OnMousePress ==
  /\ ev_mode \in Modes
  /\ \E e \in MouseEvents("button_press") :
       /\ Handled(e)
       /\ IF e.button # 1 \/ ~InTs(e)
            THEN UNCHANGED <<ev_pressed, ev_t1, ev_rect>>
            ELSE /\ ev_pressed' = TRUE
                 /\ ev_t1' = Some(e.xdata)
                 /\ ev_rect' = Some(NewRect(e.xdata))
  /\ ev_calls' = << >>
  /\ UNCHANGED <<ev_mode, ev_all, ev_t2>>
  /\ UNCHANGED notEv

\* on_mouse_move
OnMouseMove ==
  /\ ev_mode \in Modes
  /\ \E e \in MouseEvents("motion_notify") :
       /\ Handled(e)
       /\ MouseMoved(ev_mode, e)
  /\ ev_calls' = << >>
  /\ UNCHANGED <<ev_mode, ev_all, ev_pressed, ev_t1>>
  /\ UNCHANGED notEv

\* on_mouse_release
OnMouseRelease ==
  /\ ev_mode \in Modes
  /\ \E e \in MouseEvents("button_release") :
       /\ Handled(e)
       /\ IF e.button # 1 \/ ~ev_pressed
            THEN /\ ev_calls' = << >>
                 /\ UNCHANGED <<ev_pressed, ev_t2, ev_rect>>
            ELSE /\ ev_pressed' = FALSE
                 /\ ev_rect' = Unset
                 /\ IF ~InTs(e)
                      THEN ev_calls' = << >> /\ UNCHANGED ev_t2
                      ELSE /\ ev_t2' = Some(e.xdata)
                           /\ ev_calls' =
                                Dispatch(ev_mode, ev_all, ev_t1[1], e.xdata)
  /\ UNCHANGED <<ev_mode, ev_all, ev_t1>>
  /\ UNCHANGED notEv

\* on_key_press; keys other than c, d, j and a go to the viewer's handler
OnKeyPress ==
  /\ ev_mode \in Modes
  /\ \E e \in KeyEvents("key_press") :
       /\ Handled(e)
       /\ IF e.key = "c"
            THEN UNCHANGED <<ev_mode, ev_all, ev_t2, ev_rect>>
            ELSE IF e.key = "d"
              THEN /\ ev_mode' = SetMode(ev_mode, "OUTLIER_REMOVAL")
                   /\ MouseMoved(ev_mode', e)
                   /\ UNCHANGED ev_all
              ELSE IF e.key = "j"
                THEN /\ ev_mode' = SetMode(ev_mode, "JUMP_REMOVAL")
                     /\ MouseMoved(ev_mode', e)
                     /\ UNCHANGED ev_all
                ELSE /\ ev_all' = TRUE
                     /\ UNCHANGED <<ev_mode, ev_t2, ev_rect>>
  /\ ev_calls' = << >>
  /\ UNCHANGED <<ev_pressed, ev_t1>>
  /\ UNCHANGED notEv

\* on_key_release
OnKeyRelease ==
  /\ ev_mode \in Modes
  /\ \E e \in KeyEvents("key_release") :
       /\ Handled(e)
       /\ IF e.key = "d"
            THEN /\ ev_mode' = UnsetMode(ev_mode, "OUTLIER_REMOVAL")
                 /\ MouseMoved(ev_mode', e)
                 /\ UNCHANGED ev_all
            ELSE IF e.key = "j"
              THEN /\ ev_mode' = UnsetMode(ev_mode, "JUMP_REMOVAL")
                   /\ MouseMoved(ev_mode', e)
                   /\ UNCHANGED ev_all
              ELSE IF e.key = "a"
                THEN /\ ev_all' = FALSE
                     /\ UNCHANGED <<ev_mode, ev_t2, ev_rect>>
                ELSE UNCHANGED <<ev_mode, ev_all, ev_t2, ev_rect>>
  /\ ev_calls' = << >>
  /\ UNCHANGED <<ev_pressed, ev_t1>>
  /\ UNCHANGED notEv

\* ======================================================= specifications
IdleLate == IdleBootstrap /\ IdleDuplicate /\ IdleLacksData
  /\ IdleIsOutlier /\ IdleFill /\ IdleCsv /\ IdlePygeonsAutoclean
  /\ IdleEvents

Init ==
  /\ InitOutliers /\ IdleWM /\ IdleAutoclean /\ IdleCleaner
  /\ IdleDatacheck /\ IdleDiffSpecs /\ IdleSigmaInput /\ IdleDiff /\ IdleLate

Next == OutliersCall \/ Fit \/ Score \/ CallAgain

Spec == Init /\ [][Next]_vars

InitWeightedMean ==
  /\ IdleOutliers /\ InitWM /\ IdleAutoclean /\ IdleCleaner
  /\ IdleDatacheck /\ IdleDiffSpecs /\ IdleSigmaInput /\ IdleDiff /\ IdleLate

NextWeightedMean == DownsampleWeightedMean \/ IcleanWeightedMean \/ CommonMode

SpecWeightedMean == InitWeightedMean /\ [][NextWeightedMean]_vars

InitAc ==
  /\ IdleOutliers /\ IdleWM /\ InitAutoclean /\ IdleCleaner
  /\ IdleDatacheck /\ IdleDiffSpecs /\ IdleSigmaInput /\ IdleDiff /\ IdleLate

NextAc == Autoclean

SpecAutoclean == InitAc /\ [][NextAc]_vars

InitIc ==
  /\ IdleOutliers /\ IdleWM /\ IdleAutoclean /\ InitIclean
  /\ IdleDatacheck /\ IdleDiffSpecs /\ IdleSigmaInput /\ IdleDiff /\ IdleLate

NextIclean ==
  IcRemoveJump \/ IcRemoveOutliers \/ IcRemoveJumpAll \/ IcRemoveOutliersAll

SpecIclean == InitIc /\ [][NextIclean]_vars

InitCl ==
  /\ IdleOutliers /\ IdleWM /\ IdleAutoclean /\ InitClean
  /\ IdleDatacheck /\ IdleDiffSpecs /\ IdleSigmaInput /\ IdleDiff /\ IdleLate

NextClean == ClRemoveJump \/ ClRemoveOutliers \/ ClKeepChanges \/ ClUndoChanges

SpecClean == InitCl /\ [][NextClean]_vars

InitDc ==
  /\ IdleOutliers /\ IdleWM /\ IdleAutoclean /\ IdleCleaner
  /\ InitDatacheck /\ IdleDiffSpecs /\ IdleSigmaInput /\ IdleDiff /\ IdleLate

NextDatacheck == CheckData \/ CheckSelfConsistency

SpecDatacheck == InitDc /\ [][NextDatacheck]_vars

InitDs ==
  /\ IdleOutliers /\ IdleWM /\ IdleAutoclean /\ IdleCleaner
  /\ IdleDatacheck /\ InitDiffSpecs /\ IdleSigmaInput /\ IdleDiff /\ IdleLate

NextDiffSpecs == DsConstruct \/ DsFill \/ ComputePenalty \/ ComputePenaltyScaled

SpecDiffSpecs == InitDs /\ [][NextDiffSpecs]_vars

InitVs ==
  /\ IdleOutliers /\ IdleWM /\ IdleAutoclean /\ IdleCleaner
  /\ IdleDatacheck /\ IdleDiffSpecs /\ InitSigmaInput /\ IdleDiff /\ IdleLate

NextSigmaInput == NsAssemble \/ NsSolve \/ Gpr

SpecSigmaInput == InitVs /\ [][NextSigmaInput]_vars

InitDf ==
  /\ IdleOutliers /\ IdleWM /\ IdleAutoclean /\ IdleCleaner
  /\ IdleDatacheck /\ IdleDiffSpecs /\ IdleSigmaInput /\ InitDiff /\ IdleLate

NextDiff == DiffMatrix \/ Diff

SpecDiff == InitDf /\ [][NextDiff]_vars

IdleEarly ==
  /\ IdleOutliers /\ IdleWM /\ IdleAutoclean /\ IdleCleaner
  /\ IdleDatacheck /\ IdleDiffSpecs /\ IdleSigmaInput /\ IdleDiff

InitBs ==
  /\ IdleEarly /\ InitBootstrap /\ IdleDuplicate /\ IdleLacksData
  /\ IdleIsOutlier /\ IdleFill /\ IdleCsv /\ IdlePygeonsAutoclean
  /\ IdleEvents

NextBs == BsReturnZeros \/ BsBegin \/ BsSolve \/ BsSolveRaises \/ BsReturn

SpecBootstrap == InitBs /\ [][NextBs]_vars

InitDup ==
  /\ IdleEarly /\ IdleBootstrap /\ InitDuplicate /\ IdleLacksData
  /\ IdleIsOutlier /\ IdleFill /\ IdleCsv /\ IdlePygeonsAutoclean
  /\ IdleEvents

NextDup == DupReturn \/ DupRaise

SpecDuplicate == InitDup /\ [][NextDup]_vars

InitLd ==
  /\ IdleEarly /\ IdleBootstrap /\ IdleDuplicate /\ InitLacksData
  /\ IdleIsOutlier /\ IdleFill /\ IdleCsv /\ IdlePygeonsAutoclean
  /\ IdleEvents

NextLd == TimeLacksData \/ StationLacksData

SpecLacksData == InitLd /\ [][NextLd]_vars

InitGo ==
  /\ IdleEarly /\ IdleBootstrap /\ IdleDuplicate /\ IdleLacksData
  /\ InitIsOutlier /\ IdleFill /\ IdleCsv /\ IdlePygeonsAutoclean
  /\ IdleEvents

NextGo == GoBegin \/ GoIterate \/ GoReturn

SpecIsOutlier == InitGo /\ [][NextGo]_vars

InitFl ==
  /\ IdleEarly /\ IdleBootstrap /\ IdleDuplicate /\ IdleLacksData
  /\ IdleIsOutlier /\ InitFill /\ IdleCsv /\ IdlePygeonsAutoclean
  /\ IdleEvents

NextFl == FlFill

SpecFill == InitFl /\ [][NextFl]_vars

InitCv ==
  /\ IdleEarly /\ IdleBootstrap /\ IdleDuplicate /\ IdleLacksData
  /\ IdleIsOutlier /\ IdleFill /\ InitCsv /\ IdlePygeonsAutoclean
  /\ IdleEvents

NextCv == CsvFromDict \/ DictFromCsv

SpecCsv == InitCv /\ [][NextCv]_vars

InitPa ==
  /\ IdleEarly /\ IdleBootstrap /\ IdleDuplicate /\ IdleLacksData
  /\ IdleIsOutlier /\ IdleFill /\ IdleCsv /\ InitPygeonsAutoclean
  /\ IdleEvents

NextPa == PygeonsAutoclean

SpecPygeonsAutoclean == InitPa /\ [][NextPa]_vars

InitEv ==
  /\ IdleEarly /\ IdleBootstrap /\ IdleDuplicate /\ IdleLacksData
  /\ IdleIsOutlier /\ IdleFill /\ IdleCsv /\ IdlePygeonsAutoclean
  /\ InitEvents

NextEv == OnMousePress \/ OnMouseMove \/ OnMouseRelease \/ OnKeyPress
  \/ OnKeyRelease

SpecEvents == InitEv /\ [][NextEv]_vars

\* ================================================================ claims
IsPrefix(a, b) == Len(a) <= Len(b) /\ SubSeq(b, 1, Len(a)) = a
Pairs(r, c)    == {<<r[i], c[i]>> : i \in DOMAIN r}
InLoop         == pc \in {"fit", "score"}

\* C1: in clean.outliers the set of points whose working uncertainty is
\* np.inf only grows from one step of the loop to the next, and rout and cout
\* are only appended to.
C1_MaskOnlyGrows ==
  [][(InLoop /\ pc' \in {"fit", "score", "done"}) =>
        /\ Masked(mem[sigma]) \subseteq Masked(mem'[sigma'])
        /\ IsPrefix(rout, rout')
        /\ IsPrefix(cout, cout')]_vars

C1_Witness ==
  /\ pc = "done" /\ itr >= 2
  /\ "sigma_arg" \in DOMAIN entry
  /\ Masked(entry["sigma_arg"]) # {}

\* C2: clean.outliers returns at exactly the first iteration in which
\* _outliers flags no point; an iteration that flags points sets the working
\* uncertainty of exactly these points to np.inf and is followed by another
\* fit.
C2_StopAtFirstEmpty ==
  /\ [](pc = "done" => (Len(ri) = 0 /\ nfit = itr + 1))
  /\ [](pc = "fit" => nfit = itr)
  /\ [](pc = "score" => sigma_flat = ClampInf(mem[sigma]))
  /\ [][pc = "score" =>
          IF Len(ri') = 0
            THEN pc' = "done" /\ mem'[sigma] = mem[sigma]
            ELSE /\ pc' = "fit"
                 /\ Len(ri') = Len(ci')
                 /\ \A c \in Cells :
                      mem'[sigma][c] =
                        IF c \in Pairs(ri', ci') THEN Inf ELSE mem[sigma][c]]_vars

C2_Witness == pc = "done" /\ itr >= 2 /\ ncall = 1

\* C3: one call of clean._outliers flags at most one point per station.
C3_OnePerStation ==
  \A i \in DOMAIN ci, j \in DOMAIN ci : ci[i] = ci[j] => i = j

\* C4: clean.outliers called again on its own converged output (sigma[rout,
\* cout] = np.inf, same u and tol) fits once and returns empty index arrays.
C4_Idempotent ==
  (ncall = 2 /\ pc = "done") => (rout = << >> /\ cout = << >> /\ nfit = 1)

C4_Witness == ncall = 2 /\ pc = "done" /\ Cardinality(solved) >= 3

\* C5: clean.outliers terminates: an iteration that does not end the loop
\* masks a point that was not masked before it, there are at most Nt*Nx+1
\* fits, and nothing is flagged once every point is masked.
C5_Terminates ==
  /\ [](nfit <= Nt * Nx + 1)
  /\ [][(pc = "score" /\ pc' = "fit") =>
          \E c \in Cells : mem[sigma][c] # Inf /\ mem'[sigma][c] = Inf]_vars
  /\ [][(pc = "score" /\ Masked(mem[sigma]) = Cells) => pc' = "done"]_vars

C5_Witness == pc = "done" /\ Masked(mem[sigma]) = Cells /\ itr >= 2

\* C6: clean._outliers flags no point that is masked and no point whose raw
\* residual is below the noise floor, the standard deviation of a station is
\* taken over its unmasked points only; so the pairs clean.outliers returns
\* are distinct and refer to points whose input uncertainty was finite.
C6_FlagsOnlyUnmasked ==
  /\ [][pc = "score" =>
          LET sg == mem[sigma]
              ng == Normalize([c \in Cells |->
                       IF Abs(mem["u_arg"][c] - upred[c]) < zero_tol THEN 0
                       ELSE mem["u_arg"][c] - upred[c]], sg)
          IN  \A c \in Cells :
                c \in Pairs(ri', ci') <=>
                  /\ sg[c] # Inf
                  /\ Abs(mem["u_arg"][c] - upred[c]) >= zero_tol
                  /\ ExceedsStd(ng, {d \in Cells : d[2] = c[2] /\ sg[d] # Inf}, c, tol)
                  /\ \A t \in Rows : sg[<<t, c[2]>>] # Inf =>
                                        Abs(ng[<<t, c[2]>>]) <= Abs(ng[c])]_vars
  /\ [](/\ Len(rout) = Len(cout)
        /\ \A i \in DOMAIN rout, j \in DOMAIN rout :
             (rout[i] = rout[j] /\ cout[i] = cout[j]) => i = j
        /\ \A i \in DOMAIN rout :
             "sigma_arg" \in DOMAIN entry => entry["sigma_arg"][<<rout[i], cout[i]>>] # Inf)

C6_Witness ==
  /\ pc = "fit" /\ Len(rout) >= 2
  /\ "sigma_arg" \in DOMAIN entry /\ Masked(entry["sigma_arg"]) # {}
  /\ \E c \in Cells : mem[sigma][c] # Inf /\ Abs(mem["u_arg"][c] - upred[c]) = 1

\* C7: clean.outliers and network_smoother leave the arrays of their caller
\* as they were, whether they return or raise, and no uncertainty the system
\* is built from is infinite.
C7_CallerArraysKept ==
  /\ [](\A o \in DOMAIN entry : mem[o] = entry[o])
  /\ [](pc = "score" => \A c \in Cells : sigma_flat[c] # Inf)
  /\ [][pc = "fit" => \A o \in DOMAIN mem \ {"sigma_ns"} : mem'[o] = mem[o]]_vars

C7_Witness ==
  /\ pc = "done" /\ itr >= 1
  /\ "sigma_arg" \in DOMAIN entry
  /\ Masked(entry["sigma_arg"]) # {}

\* the caller's arrays are as they were when the call was made
WmArgsKept == \A o \in DOMAIN wm_entry : wm_mem[o] = wm_entry[o]

\* C8: downsample.weighted_mean leaves the arrays x and sigma passed to it
\* unchanged, and so clean.common_mode leaves the caller's sigma unchanged.
C8_WeightedMeanKeepsArgs ==
  (wm_pc = "done" /\ wm_fn \in {"downsample", "common_mode"}) => WmArgsKept

WmX == wm_entry["x_arg"]
WmS == wm_entry["sigma_arg"]
WmSingle ==
  /\ Len(WmX) = 1
  /\ WmX[1] # NaN
  /\ WmS[1] # Inf /\ WmS[1] > 0
WmBoundaryInf ==
  (\A i \in DOMAIN WmS : WmS[i] = Inf) => wm_out.sigma_sq = RInf

AcFlagged == {RowMajor(Cells \ ac_mask)[i] : i \in ac_outliers}
C10_AutocleanConsistent ==
  (/\ ac_pc = "done"
   /\ \A c \in Cells : (ac_entry["d_arg"][c] = NaN) <=> (ac_entry["sd_arg"][c] = Inf))
  => \A c \in Cells :
       /\ (ac_mem["de"][c] = NaN) <=> (ac_mem["sde"][c] = Inf)
       /\ c \in AcFlagged => (ac_mem["de"][c] = NaN /\ ac_mem["sde"][c] = Inf)
       /\ ac_entry["sd_arg"][c] = Inf => (ac_mem["de"][c] = NaN /\ ac_mem["sde"][c] = Inf)
       /\ c \notin AcFlagged => /\ ac_mem["de"][c] = ac_entry["d_arg"][c]
                                /\ ac_mem["sde"][c] = ac_entry["sd_arg"][c]

C10_Witness ==
  /\ ac_pc = "done"
  /\ \A c \in Cells : (ac_entry["d_arg"][c] = NaN) <=> (ac_entry["sd_arg"][c] = Inf)
  /\ Masked(ac_entry["sd_arg"]) # {}
  /\ AcFlagged # {}
  /\ \E c \in Cells : ac_mem["sde"][c] # Inf

\* the two encodings of missing data agree in the data set (d, s2)
MaskConsistent(d, s2) == \A c \in IcCells : RatIsNaN(d[c]) <=> (s2[c] = RInf)

\* C11: in clean/iclean.InteractiveCleaner every sequence of remove_outliers,
\* remove_jump, remove_outliers_all and remove_jump_all applied to a data set
\* in which a value is nan exactly where the uncertainty is inf leaves a data
\* set with the same property.
C11_IcleanMaskConsistent ==
  (ic_pc = "ready" /\ ic_kept_data = NoSet) => MaskConsistent(ic_data, ic_sigma)

\* a jump was removed with no valid data on one side of it, after another
\* operation, and observations are left
C11_Witness ==
  /\ ic_pc = "ready" /\ ic_kept_data = NoSet
  /\ ic_nops = MaxOps /\ ic_last = "remove_jump"
  /\ \E c \in IcCells : ic_prev[2][c] # RInf /\ ic_sigma[c] = RInf
  /\ \E c \in IcCells : c[2] = ic_xidx /\ ic_sigma[c] # RInf

\* C12: in clean.InteractiveCleaner every sequence of remove_outliers,
\* remove_jump, keep_changes and undo_changes applied to a data set in which a
\* value is nan exactly where the uncertainty is inf leaves a working data set
\* and a kept data set with the same property.
C12_CleanMaskConsistent ==
  (ic_pc = "ready" /\ ic_kept_data # NoSet) =>
     /\ MaskConsistent(ic_data, ic_sigma)
     /\ MaskConsistent(ic_kept_data, ic_kept_sigma)

\* a point at which the encodings of missing data disagree or the uncertainty
\* is zero or negative
DcBadPoint(val, std) ==
  \E d \in Dirs, c \in Cells :
    \/ (val[d][c] = NaN) # (std[d][c] = Inf)
    \/ std[d][c] \in {0, 0 - 1}

\* C13: check_data and check_self_consistency raise for every dictionary with
\* a point where isnan(value) differs from isinf(uncertainty) or where the
\* uncertainty is zero or negative, so they return only when there is no such
\* point, and they leave every value and uncertainty as it was.
C13_ChecksFailFast ==
  dc_pc \in {"returned", "raised"} =>
    /\ DcBadPoint(dc_entry[1], dc_entry[2]) => dc_pc = "raised"
    /\ <<dc_val, dc_std>> = dc_entry

C13_Witness ==
  /\ dc_pc = "raised" /\ dc_fn = "check_self_consistency"
  /\ \E d \in Dirs, c \in Cells : dc_std[d][c] = 0 /\ dc_val[d][c] = 0
  /\ \A d \in Dirs, c \in Cells : (dc_val[d][c] = NaN) = (dc_std[d][c] = Inf)
  /\ \A x \in Cols : dc_id[x] = x

\* the terms of a part do not all have the same total derivative order
MixedOrders(part) ==
  /\ part.diffs # Unset
  /\ \E i, j \in DOMAIN part.diffs[1] :
        SeqSum(part.diffs[1][i]) # SeqSum(part.diffs[1][j])

\* C14: a DiffSpecs whose space terms, or whose time terms, do not all have
\* the same total derivative order is rejected wherever it is accepted: once
\* it is constructed, filled or used for a penalty the outcome is an error.
C14_MixedOrdersRejected ==
  (ds_pc \in {"made", "filled", "penalty", "penalty2", "raised"}
   /\ (MixedOrders(ds.time) \/ MixedOrders(ds.space))) => ds_pc = "raised"

\* C15: an uncertainty that is zero or negative is a fatal input error:
\* network_smoother raises before the system is assembled or solved and gpr
\* raises to its caller, and neither returns a result or a placeholder.
C15_InvalidSigmaIsFatal ==
  (vs_pc \in {"assembled", "returned", "raised"}
   /\ \E c \in Cells : vs_s[c] <= 0) =>
     /\ vs_pc = "raised"
     /\ vs_W = NoGrid
     /\ vs_out = << >>

\* the sum of 1/sigma**2 over the whole grid
SumInvSq(sg) == QSum([c \in Cells |-> Denom(sg[c])], Cells)
DsScaleSq ==
  LET c == RatPow(Rat(ds_T, 2), SeqSum(ds.time.diffs[1][1]))
      e == RatPow(Rat(ds_L, 2), SeqSum(ds.space.diffs[1][1]))
  IN  Rat(c[1] * c[1] * e[1] * e[1], c[2] * c[2] * e[2] * e[2])

\* C16: the penalty is (T/2)^tord * (L/2)^xord / S with 1/S the root mean
\* square of 1/sigma over all Nt*Nx entries of the grid; in squares,
\* penalty^2 = ((T/2)^tord (L/2)^xord)^2 * sum(1/sigma^2) / (Nt*Nx).
C16_PenaltyFormula ==
  ds_pc = "penalty" =>
    ds_pen = RatDiv(Rat(DsScaleSq[1] * SumInvSq(ds_sigma)[1],
                        DsScaleSq[2] * SumInvSq(ds_sigma)[2]), Rat(Nt * Nx, 1))

\* C17: the penalty for the uncertainties multiplied by k is 1/k times the
\* penalty for the uncertainties themselves; in squares, k^2 penalty2^2 =
\* penalty^2.
C17_ScaleInvariance ==
  ds_pc = "penalty2" =>
    Rat(ds_k * ds_k * ds_pen2[1], ds_pen2[2]) = ds_pen

C17_Witness ==
  /\ ds_pc = "penalty2" /\ ds_k = 3
  /\ ds_pen[1] > 0 /\ ds_pen[2] > 1
  /\ \E c \in Cells : ds_sigma[c] = Inf
  /\ \E c \in Cells : ds_sigma[c] = 2
  /\ SeqSum(ds.time.diffs[1][1]) = 2 /\ SeqSum(ds.space.diffs[1][1]) = 2

\* C18: for finite u, diff returns an array that is nan at exactly the points
\* where mask is True, and at no point when mask is omitted.
C18_NanExactlyAtMask ==
  (df_pc = "diffed" /\ df_unan = {}) => df_out = MaskOrZeros(df_mask)

\* the master matrices built without the cache: every station, every epoch,
\* gets the sub-operator of its own mask column or row
TimeNoCache(mask) ==
  TimeMaster([i \in Cols |-> SubOperator("time", SubIdxTime(mask, i))])
SpaceNoCache(mask) ==
  SpaceMaster([i \in Rows |-> SubOperator("space", SubIdxSpace(mask, i))])

\* C19: the master matrices _time_diff_matrix and _space_diff_matrix assemble
\* with the cache keyed by the mask are the ones assembled from sub-operators
\* built from scratch for every station and every epoch.
C19_CacheSound ==
  df_pc \in {"matrix", "diffed"} =>
    /\ df_time => df_Dt = TimeNoCache(MaskOrZeros(df_mask))
    /\ df_space => df_Dx = SpaceNoCache(MaskOrZeros(df_mask))

\* two stations share a mask column and two epochs share a mask row, which
\* is not empty
C19_Witness ==
  /\ df_pc = "matrix" /\ df_time /\ df_space
  /\ df_mask # Unset /\ df_mask[1] # {} /\ df_mask[1] # Cells
  /\ \E i, j \in Cols : i # j /\ TimeKey(df_mask[1], i) = TimeKey(df_mask[1], j)
  /\ df_Dt # << >>

DfUnmasked(k) == CellOf(k) \notin MaskOrZeros(df_mask)
DfLocal(A, axis) ==
  \A e \in DOMAIN A :
    /\ CellOf(e[1])[axis] = CellOf(e[2])[axis]
    /\ DfUnmasked(e[1]) /\ DfUnmasked(e[2])

\* C20 as stated: every stored entry of the time operator couples two
\* unmasked points of one station, every stored entry of the space operator
\* two unmasked points of one epoch, and an unmasked row of D has entries in
\* unmasked columns only.
C20_StoredEntriesLocal ==
  df_pc \in {"matrix", "diffed"} =>
    /\ DfLocal(df_Dt, 2)
    /\ DfLocal(df_Dx, 1)
    /\ \A e \in DOMAIN df_D : DfUnmasked(e[1]) => DfUnmasked(e[2])

\* C20 amended: this holds of the operators _time_diff_matrix and
\* _space_diff_matrix build; the masked identity that stands for an unset
\* part stores a zero on the diagonal at every masked point and a one at
\* every other; an unmasked row of D has entries in unmasked columns only.
C20_BuiltEntriesLocal ==
  df_pc \in {"matrix", "diffed"} =>
    /\ df_time => DfLocal(df_Dt, 2)
    /\ df_space => DfLocal(df_Dx, 1)
    /\ ~df_time => \A e \in DOMAIN df_Dt :
                     e[1] = e[2] /\ (df_Dt[e] = ValZero <=> ~DfUnmasked(e[1]))
    /\ ~df_space => \A e \in DOMAIN df_Dx :
                      e[1] = e[2] /\ (df_Dx[e] = ValZero <=> ~DfUnmasked(e[1]))
    /\ \A e \in DOMAIN df_D : DfUnmasked(e[1]) /\ DfUnmasked(e[2])

C20_Witness ==
  /\ df_pc = "matrix" /\ df_time /\ ~df_space
  /\ df_mask # Unset /\ Cardinality(df_mask[1]) = 1
  /\ \E e \in DOMAIN df_D : e[1] # e[2]

\* C21: when the processing of dataset i raises a numerical error gpr
\* returns; row i of the mean is nan and row i of the uncertainty is inf,
\* and every other row holds the result of its own dataset, the one it has
\* when no dataset fails.
C21_IsolateAndContinue ==
  (vs_fn = "gpr" /\ vs_pc # "call") =>
    /\ vs_pc = "returned"
    /\ DOMAIN vs_out = Rows
    /\ \A i \in vs_err : vs_out[i] = Placeholder
    /\ \A j \in Rows \ vs_err :
         vs_out[j] = TaskWithErrorCatch(vs_s, {}, j)

\* one dataset failed and another, with valid uncertainties, did not
C21_Witness ==
  /\ vs_fn = "gpr" /\ vs_pc = "returned"
  /\ \E i \in vs_err, j \in Rows \ vs_err :
       /\ ~TaskRejects(vs_s, i) /\ ~TaskRejects(vs_s, j)
       /\ vs_out[i] = Placeholder /\ vs_out[j] = Posterior(vs_s, j)
\* the sample variance of a sequence of numbers: the sum of the squared
\* deviations from the mean over n - 1
SampleVariance(xs) ==
  LET n    == Len(xs)
      mean == Rat(SeqSum(xs), n)
  IN  QDiv(QSum([k \in DOMAIN xs |-> RatPow(RatSub(Rat(xs[k], 1), mean), 2)],
                DOMAIN xs),
           Rat(n - 1, 1))

\* C22: in _bootstrap_uncertainty with itr >= 2, a solve that raises makes
\* the call raise with no uncertainty returned; a call that returns has made
\* exactly itr solves, all with the same G and L, and returns the variance of
\* all itr solutions.
C22_BootstrapAllOrNothing ==
  bs_itr >= 2 =>
    /\ Len(bs_solns) < Len(bs_calls) => (bs_pc = "raised" /\ bs_out = NoSet)
    /\ bs_pc = "raised" => bs_out = NoSet
    /\ bs_pc = "returned" =>
         /\ Len(bs_calls) = bs_itr /\ Len(bs_solns) = bs_itr
         /\ \A k \in DOMAIN bs_calls : bs_calls[k] = <<"G", "L">>
         /\ bs_out = SampleVariance(bs_solns)

C22_Witness ==
  /\ bs_pc = "returned" /\ bs_itr = MaxItr
  /\ bs_out # RZero /\ bs_out # NoSet
  /\ \E i, j \in DOMAIN bs_solns : bs_solns[i] # bs_solns[j]
\* C23: a station _identify_duplicate_station reports is one of the two
\* stations of a closest pair and has no more observations than the other;
\* station_is_duplicate ends by returning is_duplicate, in which the partner
\* of every flagged station is not flagged.
C23_DuplicateSelection ==
  dup_pc \notin {"idle", "call"} =>
    /\ dup_pc = "returned"
    /\ dup_found # << >> =>
         LET idx1 == dup_found[1]
             idx2 == dup_found[2]
             out  == dup_found[3]
             other == IF out = idx1 THEN idx2 ELSE idx1
         IN  /\ out \in {idx1, idx2} /\ idx1 # idx2
             /\ \A i, j \in Stations :
                  i # j => Abs(dup_x[idx1] - dup_x[idx2]) <= Abs(dup_x[i] - dup_x[j])
             /\ dup_obs[out] <= dup_obs[other]
             /\ out \in dup_flags /\ other \notin dup_flags
\* C24: time_lacks_data is True for an epoch only when the fraction of the
\* stations whose sigma is np.inf at that epoch is greater than cutoff, and
\* station_lacks_data likewise for a station: a fraction equal to cutoff
\* gives False.
C24_StrictlyExceedsCutoff ==
  ld_pc = "returned" =>
    \A i \in DOMAIN ld_out :
      LET axis == IF ld_fn = "time_lacks_data" THEN 1 ELSE 2
          b    == IF ld_fn = "time_lacks_data" THEN Nx ELSE Nt
          ninf == Cardinality({c \in ld_inf : c[axis] = i})
      IN  ld_out[i] => ninf * ld_cutoff[2] > b * ld_cutoff[1]
\* C25: in gpr._is_outlier the mask out only grows from one pass of the loop
\* to the next: a point that is marked in one pass is marked in every later
\* pass and in the returned mask.
C25_GprMaskOnlyGrows ==
  \A k \in DOMAIN go_hist : \A m \in DOMAIN go_hist :
    k <= m => go_hist[k] \subseteq go_hist[m]
Options == {"basis", "stencil_size", "order", "cuts", "diffs", "coeffs",
            "diff_type"}
\* the default fill() gives an option of a part that is left unset
FlDefault(part, opt, P) ==
  LET dim == IF part = "time" THEN 1 ELSE 2
  IN  CASE opt = "coeffs" -> [i \in DOMAIN P.diffs[1] |-> 1]
        [] opt = "stencil_size" -> DefaultStencilSize(dim, P.diffs[1])
        [] opt = "diff_type" -> IF part = "time" THEN "poly" ELSE "rbf"
        [] opt = "basis" -> "rbf.basis.phs3"
        [] opt = "order" -> DefaultPolyOrder(P.stencil_size[1], dim)
        [] opt = "cuts" -> << >>
FlParts == {"time", "space"}

FlForced(part, opt, A) ==
  \/ part = "time" /\ opt \in {"basis", "order"} /\ A.diff_type = Some("poly")
  \/ part = "space" /\ opt = "diff_type"

C27_CsvRoundTrip ==
  cv_pc \in {"read", "raised"} =>
    /\ cv_pc = "read"
    /\ cv_back.id = cv_dict.id
    /\ cv_back.time = cv_dict.time
    /\ cv_back.north = cv_dict.north
    /\ cv_back.north_std = cv_dict.north_std
\* the entries of a sequence at the indices idx, in order
Pick(q, idx) == [k \in DOMAIN idx |-> q[idx[k]]]
WmFinite == Ascending({i \in DOMAIN wm_entry["sigma_arg"] :
                         wm_entry["sigma_arg"][i] # Inf})

\* C28: in downsample.weighted_mean the entries whose uncertainty is np.inf
\* contribute nothing, whatever their value, nan included: when an entry has
\* a finite uncertainty (and the entries that have one have a value) the
\* result is the one the entries with a finite uncertainty give alone.
C28_InfSigmaContributesNothing ==
  (/\ wm_pc = "done" /\ wm_fn = "downsample"
   /\ Len(WmFinite) > 0
   /\ \A k \in DOMAIN WmFinite : wm_entry["x_arg"][WmFinite[k]] # NaN) =>
     wm_out = DownResult(Pick(wm_entry["x_arg"], WmFinite),
                         ClampMin(Pick(wm_entry["sigma_arg"], WmFinite)))
\* C29: the outlier detection pygeons_autoclean runs uses the tolerance it
\* is given as outlier_tol: every call of autoclean has tol = outlier_tol.
C29_OutlierTolIsUsed ==
  pa_pc = "returned" =>
    /\ Len(pa_calls) = Len(Directions)
    /\ \A k \in DOMAIN pa_calls : pa_calls[k].tol = pa_args.outlier_tol
\* ---------------------------------------------------------------------- C30
\* the key whose press sets and whose release unsets the mode
ModeKey(mode) == IF mode = "OUTLIER_REMOVAL" THEN "d" ELSE "j"

\* the method that cleans in the mode
ModeMethod(mode) ==
  IF mode = "OUTLIER_REMOVAL" THEN "remove_outliers" ELSE "remove_jump"

\* C30: under every interleaving of key and mouse events the mode is one of
\* None, OUTLIER_REMOVAL and JUMP_REMOVAL; it changes only from None to a mode
\* in the handler of a press of that mode's key and from a mode to None in the
\* handler of a release of that same key; a handler calls a cleaning method
\* only when it handles a left-button release inside the time series figure
\* that follows a left-button press inside it with no left release between,
\* and then it calls exactly one method, the one of the mode at the time of
\* the release, and none when that mode is None.
C30_ModeAndEdits ==
  /\ ev_mode \in Modes
  /\ ev_last # Unset =>
       LET e == ev_last[1].event
           before == ev_last[1].mode
       IN  /\ ev_mode # before =>
                \/ /\ before = NoMode
                   /\ e.type = "key_press" /\ e.key = ModeKey(ev_mode)
                \/ /\ ev_mode = NoMode
                   /\ e.type = "key_release" /\ e.key = ModeKey(before)
           /\ Len(ev_calls) <= 1
           /\ before = NoMode => ev_calls = << >>
           /\ ev_calls # << >> =>
                /\ e.type = "button_release" /\ e.button = 1 /\ InTs(e)
                /\ ev_last[1].armed
                /\ ev_mode = before
                /\ ev_calls[1].method = ModeMethod(before)

C30_Witness ==
  /\ ev_calls # << >>
  /\ ev_calls[1].method = "remove_jump"
  /\ ev_last[1].mode = "JUMP_REMOVAL"
  /\ ev_all = FALSE
====
